---- MODULE Spec2Model ----
(***************************************************************************)
(* Model of the Diablo backend's text pipeline: quiz-index normalisation   *)
(* and quiz parsing (backend/modules/learning.py), report post-processing  *)
(* and ERC detection (backend/modules/scout.py) and the code analyzer's    *)
(* confidence score (backend/core/function_analyzer.py).                   *)
(*                                                                         *)
(* Strings are sequences of tokens.  A token stands for the shortest piece *)
(* of text the source's regular expressions tell apart: a whole tag, a     *)
(* keyword, one whitespace character, one letter, one other character.     *)
(* Every regular expression of the source is an operator that scans the    *)
(* token sequence the way re.search / re.finditer / re.sub scan the text.  *)
(***************************************************************************)
EXTENDS Integers, Sequences, FiniteSets, TLC

VARIABLES
    pc,                 \* position of the call under study: "input", "done", ...
    raw_correct,        \* _normalize_correct_index: argument raw_correct
    options_count,      \* _normalize_correct_index: argument options_count
    block_html,         \* _normalize_correct_index: argument block_html
    explanation_html,   \* _normalize_correct_index: argument explanation_html
    correct_idx,        \* _normalize_correct_index: returned value
    html,               \* the HTML text handed to a parser or post-processor
    matched,            \* _postprocess_report_html: the matched findings
    out_html,           \* the post-processed HTML
    questions,          \* _parse_quiz: the returned list, or the raised error
    code,               \* the Solidity text handed to _parse_contract / analyze
    info,               \* _parse_contract: the returned ContractInfo
    ctx,                \* FunctionAnalyzer.analyze: the returned CodeContext
    flow,               \* the handler that serves the request
    user_context,       \* search_for_code: the user's hint
    surrounding_code,   \* /pitfall, /fix-draft: the text around the selection
    sel_name,           \* /pitfall, /fix-draft: the name taken from the selection
    unique_queries,     \* the deduplicated list of query candidates
    sent,               \* the keyword strings passed to SoloditClient.search
    scored,             \* the findings kept so far, with their scores
    findings,           \* the findings a handler selects
    depth,              \* generate_report: the argument depth
    failure,            \* the error of the search that has just failed, if any
    generated,          \* the outcomes of the calls of AIProvider.generate
    response,           \* what the handler returns, or the error it raises
    handles,            \* server.py: the module's handles, set by lifespan
    replies,            \* what the findings API and the LLM answer each request
    requests            \* the locals of the handler of each request in progress

vars == <<pc, raw_correct, options_count, block_html, explanation_html,
          correct_idx, html, matched, out_html, questions, code, info, ctx,
          flow, user_context, surrounding_code, sel_name, unique_queries,
          sent, scored, findings, depth, failure, generated, response,
          handles, replies, requests>>

normalizeVars == <<raw_correct, options_count, block_html, explanation_html,
                   correct_idx>>
htmlVars == <<html, matched, out_html, questions>>
codeVars == <<code, info, ctx>>
replyVars == <<depth, failure, generated, response>>
serverVars == <<handles, replies, requests>>
flowVars == <<flow, user_context, surrounding_code, sel_name, unique_queries,
              sent, scored, findings, replyVars, serverVars>>

(***************************************************************************)
(* Generic helpers.                                                        *)
(***************************************************************************)
Min(a, b) == IF a <= b THEN a ELSE b
Max(a, b) == IF a >= b THEN a ELSE b

\* All sequences over S of length 0..n.
SeqUpTo(S, n) == UNION {[1..k -> S] : k \in 0..n}

RECURSIVE Flatten(_)
\* Concatenation of a sequence of sequences.
Flatten(ss) == IF ss = <<>> THEN <<>> ELSE Head(ss) \o Flatten(Tail(ss))

Range(s) == {s[i] : i \in DOMAIN s}
Count(s, t) == Cardinality({i \in DOMAIN s : s[i] = t})

\* A returned value, and a raised exception in its place.
Ok(v) == [raised |-> FALSE, value |-> v]
Raise == [raised |-> TRUE, value |-> <<>>]

(***************************************************************************)
(* learning.py: _normalize_correct_index                                   *)
(*                                                                         *)
(* Tokens of the answer-hint pattern                                       *)
(*   (?:answer|correct)\s*[:\-]\s*([A-D])   with re.IGNORECASE             *)
(* "answer", "correct": the keyword, in any letter case                    *)
(* ":"                : ':' or '-'                                         *)
(* "ws"               : one whitespace character                           *)
(* "A".."D", "a".."d" : one letter                                         *)
(* "because"          : a word that starts with a letter of [A-D]          *)
(* anything else      : text no part of the pattern matches                *)
(* The keywords themselves start with a letter of [A-D] (a, c), which the  *)
(* group ([A-D]) accepts as well as a free-standing letter.                *)
(***************************************************************************)
Keywords == {"answer", "correct"}

\* ord(letter.upper()) - ord("A") of the character the group ([A-D]) would
\* capture at the start of token t; -1 when t does not start with one.
LetterIndex(t) ==
    CASE t \in {"A", "a", "answer"}  -> 0
      [] t \in {"B", "b", "because"} -> 1
      [] t \in {"C", "c", "correct"} -> 2
      [] t \in {"D", "d"}            -> 3
      [] OTHER                       -> -1

RECURSIVE SkipWs(_, _)
\* Position after the greedy \s* that starts at position i of text.
SkipWs(text, i) ==
    IF i <= Len(text) /\ text[i] = "ws" THEN SkipWs(text, i + 1) ELSE i

\* The pattern matched with its keyword at position i: the index of the
\* captured letter, or -1 when the pattern does not match there.
HintMatchAt(text, i) ==
    IF i > Len(text) \/ text[i] \notin Keywords THEN -1
    ELSE LET j == SkipWs(text, i + 1)
         IN IF j > Len(text) \/ text[j] # ":" THEN -1
            ELSE LET k == SkipWs(text, j + 1)
                 IN IF k > Len(text) THEN -1 ELSE LetterIndex(text[k])

RECURSIVE LetterSearchFrom(_, _)
\* re.search: the match at the leftmost position from i on; -1 for no match.
LetterSearchFrom(text, i) ==
    IF i > Len(text) THEN -1
    ELSE IF HintMatchAt(text, i) >= 0 THEN HintMatchAt(text, i)
    ELSE LetterSearchFrom(text, i + 1)

\* letter_m of the source, as the index of the captured letter (-1: None).
\* The searched text is f"{block_html} {explanation_html}".
LetterSearch(block, explanation) ==
    LetterSearchFrom(block \o <<"ws">> \o explanation, 1)

\* Variant: the zero-based rule tried before the one-based rule.
_normalize_zero_based_first(raw, count, block, explanation) ==
    IF count <= 0 THEN 0
    ELSE LET idx == LetterSearch(block, explanation)
         IN IF idx >= 0 /\ idx < count THEN idx
            ELSE IF 0 <= raw /\ raw < count THEN raw
            ELSE IF 1 <= raw /\ raw <= count THEN raw - 1
            ELSE Max(0, Min(raw, count - 1))

\* Variant: the last-resort clamp left out.
_normalize_no_clamp(raw, count, block, explanation) ==
    IF count <= 0 THEN 0
    ELSE LET idx == LetterSearch(block, explanation)
         IN IF idx >= 0 /\ idx < count THEN idx
            ELSE IF 1 <= raw /\ raw <= count THEN raw - 1
            ELSE raw

_normalize_correct_index(raw, count, block, explanation) ==
    IF count <= 0 THEN 0
    ELSE LET idx == LetterSearch(block, explanation)
         IN \* letter_m is not None, then 0 <= idx < options_count
            IF idx >= 0 /\ 0 <= idx /\ idx < count THEN idx
            \* common case from LLMs: 1-based index
            ELSE IF 1 <= raw /\ raw <= count THEN raw - 1
            \* already zero-based
            ELSE IF 0 <= raw /\ raw < count THEN raw
            \* last-resort clamp
            ELSE Max(0, Min(raw, count - 1))

(***************************************************************************)
(* learning.py: the tokens of lesson HTML.                                 *)
(*   "Q0".."Q9": <div class="quiz-question" data-correct="0..9">           *)
(*   "Qlong"   : the same tag with a data-correct of more than 4300 digits *)
(*   "Qnd"     : <div class="quiz-question"> without data-correct          *)
(*   "opt"     : <div class="quiz-option">                                 *)
(*   "exp"     : <div class="quiz-explanation">                            *)
(*   "cdiv"    : </div>                                                    *)
(*   "p", "cp" : <p> or <h4>, </p> or </h4>                                *)
(*   "pre", "code", "ccode", "cpre": <pre>, <code>, </code>, </pre>        *)
(*   "ws"      : one whitespace character                                  *)
(*   "txt"     : one other character                                       *)
(*   the tokens of the answer-hint pattern, and the placeholder texts      *)
(***************************************************************************)
QTags == <<"Q0", "Q1", "Q2", "Q3", "Q4", "Q5", "Q6", "Q7", "Q8", "Q9">>
QStart == {QTags[n] : n \in 1 .. Len(QTags)} \cup {"Qlong"}

\* <div\s+class="quiz-question" : the lookahead that ends a quiz block.
IsQuizMarker(t) == t \in QStart \cup {"Qnd"}

\* int(match.group(1)): CPython (3.11 and later) raises ValueError for a digit
\* string of more than 4300 digits.
IntOf(t) ==
    IF t = "Qlong" THEN Raise
    ELSE Ok((CHOOSE n \in 1 .. Len(QTags) : QTags[n] = t) - 1)

\* The opening tag with str(n) as its data-correct value.
QTag(n) == QTags[n + 1]

LESSON_PLACEHOLDER == "// Source snippet unavailable in finding body."
REPORT_PLACEHOLDER == "// Patch/example unavailable in generated output."

\* text.strip()
RECURSIVE LStrip(_)
LStrip(text) ==
    IF text # <<>> /\ Head(text) = "ws" THEN LStrip(Tail(text)) ELSE text
RECURSIVE RStrip(_)
RStrip(text) ==
    IF text # <<>> /\ text[Len(text)] = "ws"
    THEN RStrip(SubSeq(text, 1, Len(text) - 1)) ELSE text
Strip(text) == RStrip(LStrip(text))

RECURSIVE FirstAt(_, _, _)
\* Least position >= i of text holding a token of set S; 0 when there is none.
FirstAt(text, S, i) ==
    IF i > Len(text) THEN 0
    ELSE IF text[i] \in S THEN i
    ELSE FirstAt(text, S, i + 1)

(***************************************************************************)
(* The empty-code-block pattern of both post-processors:                   *)
(*   <pre[^>]*>\s*<code[^>]*>\s*</code>\s*</pre>                           *)
(***************************************************************************)
\* Position of the </pre> that ends the match starting at i; 0: no match.
EmptyCodeEnd(text, i) ==
    IF i > Len(text) \/ text[i] # "pre" THEN 0
    ELSE LET a == SkipWs(text, i + 1)
         IN IF a > Len(text) \/ text[a] # "code" THEN 0
            ELSE LET b == SkipWs(text, a + 1)
                 IN IF b > Len(text) \/ text[b] # "ccode" THEN 0
                    ELSE LET c == SkipWs(text, b + 1)
                         IN IF c > Len(text) \/ text[c] # "cpre" THEN 0
                            ELSE c

RECURSIVE SubEmptyCode(_, _, _)
\* re.sub of the pattern by <pre><code>placeholder</code></pre>, from i on.
SubEmptyCode(text, placeholder, i) ==
    IF i > Len(text) THEN <<>>
    ELSE IF EmptyCodeEnd(text, i) # 0
    THEN <<"pre", "code", placeholder, "ccode", "cpre">>
         \o SubEmptyCode(text, placeholder, EmptyCodeEnd(text, i) + 1)
    ELSE <<text[i]>> \o SubEmptyCode(text, placeholder, i + 1)

(***************************************************************************)
(* q_pattern of _parse_quiz and of _postprocess_lesson_html:               *)
(*   <div\s+class="quiz-question"[^>]*data-correct="(\d+)"[^>]*>           *)
(*   (.*?)</div>\s*(?=<div\s+class="quiz-question"|$)        re.DOTALL     *)
(***************************************************************************)
\* </div>\s*(?=<div\s+class="quiz-question"|$) matches at position j.
IsBlockEnd(text, j) ==
    /\ text[j] = "cdiv"
    /\ LET k == SkipWs(text, j + 1)
       IN k > Len(text) \/ IsQuizMarker(text[k])

RECURSIVE FirstBlockEnd(_, _)
\* The lazy (.*?) stops at the first such </div> from j on; 0: there is none.
FirstBlockEnd(text, j) ==
    IF j > Len(text) THEN 0
    ELSE IF IsBlockEnd(text, j) THEN j
    ELSE FirstBlockEnd(text, j + 1)

RECURSIVE QMatches(_, _)
\* finditer: the matches from position p on, each <<start, position of the
\* closing </div>, position after the match>>.
QMatches(text, p) ==
    LET i == FirstAt(text, QStart, p)
    IN IF i = 0 THEN <<>>
       ELSE LET j == FirstBlockEnd(text, i + 1)
            IN IF j = 0 THEN <<>>
               ELSE <<<<i, j, SkipWs(text, j + 1)>>>>
                    \o QMatches(text, SkipWs(text, j + 1))

RECURSIVE OptionsFrom(_, _)
\* finditer of <div\s+class="quiz-option"[^>]*>(.*?)</div> over block:
\* group(1).strip() of every match.
OptionsFrom(block, p) ==
    LET a == FirstAt(block, {"opt"}, p)
    IN IF a = 0 THEN <<>>
       ELSE LET b == FirstAt(block, {"cdiv"}, a + 1)
            IN IF b = 0 THEN <<>>
               ELSE <<Strip(SubSeq(block, a + 1, b - 1))>>
                    \o OptionsFrom(block, b + 1)

\* re.search of <open>(.*?)<close>: group(1).strip(), or default.
SearchBetween(block, open, close, default) ==
    LET a == FirstAt(block, open, 1)
        b == IF a = 0 THEN 0 ELSE FirstAt(block, close, a + 1)
    IN IF b = 0 THEN default ELSE Strip(SubSeq(block, a + 1, b - 1))

RECURSIVE CodeStart(_, _)
\* Least position >= i where <pre><code[^>]*> matches; 0: none.
CodeStart(block, i) ==
    IF i + 1 > Len(block) THEN 0
    ELSE IF block[i] = "pre" /\ block[i + 1] = "code" THEN i
    ELSE CodeStart(block, i + 1)

RECURSIVE CodeEnd(_, _)
\* Least position >= i where </code></pre> matches; 0: none.
CodeEnd(block, i) ==
    IF i + 1 > Len(block) THEN 0
    ELSE IF block[i] = "ccode" /\ block[i + 1] = "cpre" THEN i
    ELSE CodeEnd(block, i + 1)

\* re.search of <pre><code[^>]*>(.*?)</code></pre>: group(1).strip() or "".
CodeSnippet(block) ==
    LET a == CodeStart(block, 1)
        b == IF a = 0 THEN 0 ELSE CodeEnd(block, a + 2)
    IN IF b = 0 THEN <<>> ELSE Strip(SubSeq(block, a + 2, b - 1))

\* The QuizQuestion of one match m of q_pattern, or <<>> when the block has
\* no option.  <(?:p|h4)[^>]*> also matches <pre>.
QuestionOf(text, m) ==
    LET block == SubSeq(text, m[1] + 1, m[2] - 1)
        options == OptionsFrom(block, 1)
        explanation == SearchBetween(block, {"exp"}, {"cdiv"}, <<>>)
    IN IF options = <<>> THEN <<>>
       ELSE <<[question |-> SearchBetween(block, {"p", "pre"}, {"cp"},
                                          <<"Question">>),
               code_snippet |-> CodeSnippet(block),
               options |-> options,
               correct_index |-> _normalize_correct_index(
                                    IntOf(text[m[1]]).value, Len(options),
                                    block, explanation),
               explanation |-> explanation]>>

RECURSIVE QuestionsOf(_, _)
QuestionsOf(text, ms) ==
    IF ms = <<>> THEN <<>>
    ELSE QuestionOf(text, Head(ms)) \o QuestionsOf(text, Tail(ms))

\* Variant: a block without options is emitted with no options.
_parse_quiz_keeps_empty(text) ==
    LET ms == QMatches(text, 1)
    IN Ok([k \in 1 .. Len(ms) |->
             LET block == SubSeq(text, ms[k][1] + 1, ms[k][2] - 1)
             IN [question |-> <<"Question">>, code_snippet |-> <<>>,
                 options |-> OptionsFrom(block, 1),
                 correct_index |-> 0, explanation |-> <<>>]])

_parse_quiz(text) ==
    LET ms == QMatches(text, 1)
    IN IF \E k \in 1 .. Len(ms) : IntOf(text[ms[k][1]]).raised THEN Raise
       ELSE Ok(QuestionsOf(text, ms))

\* _fix_q: the replacement of one match m of q_pattern.  Group 4, the block,
\* runs to the end of the match and so holds the closing </div> and the
\* whitespace after it; it is handed over as block_html and explanation_html.
FixQ(text, m) ==
    LET block == SubSeq(text, m[1] + 1, m[3] - 1)
        count == Len(OptionsFrom(block, 1))
        normalized == _normalize_correct_index(IntOf(text[m[1]]).value, count,
                                               block, block)
    IN <<QTag(normalized)>> \o block

RECURSIVE SubFixQ(_, _, _)
\* q_pattern.sub(_fix_q, out): the text from p on, every match replaced.
SubFixQ(text, ms, p) ==
    IF ms = <<>> THEN SubSeq(text, p, Len(text))
    ELSE SubSeq(text, p, Head(ms)[1] - 1) \o FixQ(text, Head(ms))
         \o SubFixQ(text, Tail(ms), Head(ms)[3])

_postprocess_lesson_html(text) ==
    LET out == SubEmptyCode(text, LESSON_PLACEHOLDER, 1)
        ms == QMatches(out, 1)
    IN IF \E k \in 1 .. Len(ms) : IntOf(out[ms[k][1]]).raised THEN Raise
       ELSE Ok(SubFixQ(out, ms, 1))

(***************************************************************************)
(* scout.py: _postprocess_report_html.  Further tokens:                    *)
(*   "style="  : the attribute name style, in any letter case, and its '=' *)
(*   "dq", "sq": one double quote, one single quote                        *)
(*   "&quot;", "&#x27;": what html.escape makes of them                    *)
(*   EVIDENCE_HEAD, "<tr>", "<td>", "</tr>", EVIDENCE_TAIL: the markup of  *)
(*   the appended table ("<td>" stands for the cell border </td><td>)      *)
(***************************************************************************)
EVIDENCE_HEAD == "<h2>Evidence Map</h2>"
EVIDENCE_TAIL == "</tbody></table>"
EVIDENCE_ROWS == 8

\* Position of the closing quote of the match of \sstyle=<quote>[^<quote>]*<quote>
\* that starts at i; 0: no match.
StyleEnd(text, quote, i) ==
    IF i + 2 > Len(text) THEN 0
    ELSE IF text[i] = "ws" /\ text[i + 1] = "style=" /\ text[i + 2] = quote
    THEN FirstAt(text, {quote}, i + 3)
    ELSE 0

RECURSIVE StripStyle(_, _, _)
\* re.sub(r'\sstyle="[^"]*"', "", out, flags=re.IGNORECASE), from i on.
StripStyle(text, quote, i) ==
    IF i > Len(text) THEN <<>>
    ELSE IF StyleEnd(text, quote, i) # 0
    THEN StripStyle(text, quote, StyleEnd(text, quote, i) + 1)
    ELSE <<text[i]>> \o StripStyle(text, quote, i + 1)

\* html.escape(s): quotes become entities (the texts modelled hold no & < >).
Escape(text) ==
    [i \in 1 .. Len(text) |->
        CASE text[i] = "dq" -> "&quot;"
          [] text[i] = "sq" -> "&#x27;"
          [] OTHER          -> text[i]]

\* One <tr> of the evidence table.
EvidenceRow(f) ==
    <<"<tr>">> \o Escape(f.id) \o <<"<td>">> \o Escape(f.title)
    \o <<"<td>">> \o Escape(f.firm) \o <<"<td>">> \o Escape(f.protocol)
    \o <<"<td>">> \o Escape(f.impact) \o <<"</tr>">>

\* Variant: a row for every matched finding, the cap of 8 left out.
EvidenceRows_uncapped(ms) ==
    Flatten([k \in 1 .. Len(ms) |-> EvidenceRow(ms[k])])

\* evidence_rows: the rows of matched[:8].
EvidenceRows(ms) ==
    Flatten([k \in 1 .. Min(Len(ms), EVIDENCE_ROWS) |-> EvidenceRow(ms[k])])

_postprocess_report_html(text, ms) ==
    LET out1 == StripStyle(text, "dq", 1)
        out2 == StripStyle(out1, "sq", 1)
        out3 == SubEmptyCode(out2, REPORT_PLACEHOLDER, 1)
    IN IF ms # <<>>
       THEN out3 \o <<EVIDENCE_HEAD>> \o EvidenceRows(ms) \o <<EVIDENCE_TAIL>>
       ELSE out3

\* generate_report, lines 172-182: the matched list of n findings, ids F1..Fn.
\* The findings' texts come from the corpus; every second title here holds
\* quoted text that reads like a style attribute.
FIds ==
    <<"F1", "F2", "F3", "F4", "F5", "F6", "F7", "F8", "F9", "F10", "F11", "F12",
      "F13", "F14", "F15", "F16", "F17", "F18", "F19", "F20", "F21", "F22", "F23", "F24">>
Matched(n) ==
    [k \in 1 .. n |->
        [id |-> <<FIds[k]>>,
         title |-> IF k % 2 = 0 THEN <<"txt", "ws", "style=", "dq", "txt", "dq">>
                   ELSE <<"txt">>,
         firm |-> <<"txt">>, protocol |-> <<"txt">>, impact |-> <<"txt">>]]

(***************************************************************************)
(* Idle values of the variables a specification does not use.              *)
(***************************************************************************)
NormalizeIdle ==
    /\ raw_correct = 0 /\ options_count = 0
    /\ block_html = <<>> /\ explanation_html = <<>> /\ correct_idx = -1
HtmlIdle ==
    /\ html = <<>> /\ matched = <<>>
    /\ out_html = Ok(<<>>) /\ questions = Ok(<<>>)
CodeIdle ==
    /\ code = <<>> /\ info = <<>> /\ ctx = <<>>
ReplyIdle ==
    /\ depth = "standard" /\ failure = "" /\ generated = <<>>
    /\ response = <<>>
ServerIdle ==
    handles = <<>> /\ replies = <<>> /\ requests = <<>>
FlowIdle ==
    /\ flow = "" /\ user_context = <<>> /\ surrounding_code = <<>>
    /\ sel_name = <<>> /\ unique_queries = <<>> /\ sent = <<>>
    /\ scored = <<>> /\ findings = <<>>
    /\ ReplyIdle /\ ServerIdle

(***************************************************************************)
(* SpecNormalize: one call of _normalize_correct_index on any arguments.   *)
(***************************************************************************)
MaxOptions == 3
MaxBlockLen == 3

RawValues == -2 .. (MaxOptions + 2)
CountValues == -1 .. MaxOptions
HintAlphabet == {"answer", "correct", ":", "ws", "b", "D", "x"}
\* "", "Answer:D", ":b", "x", "Correct: because"
ExplanationTexts ==
    {<<>>, <<"answer", ":", "D">>, <<":", "b">>, <<"x">>,
     <<"correct", ":", "ws", "because">>}

InitNormalize ==
    /\ pc = "input"
    /\ raw_correct \in RawValues
    /\ options_count \in CountValues
    /\ block_html \in SeqUpTo(HintAlphabet, MaxBlockLen)
    /\ explanation_html \in ExplanationTexts
    /\ correct_idx = -1
    /\ HtmlIdle /\ CodeIdle /\ FlowIdle

NormalizeCall ==
    /\ pc = "input"
    /\ pc' = "done"
    /\ correct_idx' = _normalize_correct_index(raw_correct, options_count,
                                                block_html, explanation_html)
    /\ UNCHANGED <<raw_correct, options_count, block_html, explanation_html,
                   serverVars>>
    /\ UNCHANGED <<htmlVars, codeVars, flowVars>>

NextNormalize == NormalizeCall

SpecNormalize == InitNormalize /\ [][NextNormalize]_vars

(***************************************************************************)
(* SpecHtml: _parse_quiz, _postprocess_lesson_html and                     *)
(* _postprocess_report_html, each called once on any HTML built of at most *)
(* MaxHtmlChunks pieces (the LLM's reply, which nothing constrains).       *)
(***************************************************************************)
MaxHtmlChunks == 3
MaxMatched == 9

\* Sizes of the matched list: none, one, around the row cap, up to the bound.
MatchedCounts ==
    {0, 1, EVIDENCE_ROWS - 1, EVIDENCE_ROWS} \cup (EVIDENCE_ROWS + 1) .. MaxMatched

HtmlChunks ==
    { <<"Q2">>, <<"Qlong">>,
      <<"opt", "txt", "cdiv">>,                    \* a closed option
      <<"opt">>,                                   \* an option left open
      <<"cdiv">>, <<"ws">>, <<"txt">>,
      <<"exp", "answer", ":", "A", "cdiv">>,       \* explanation "Answer:A"
      <<"pre", "code">>, <<"ccode", "cpre">>,
      <<"ws", "style=", "dq", "txt", "dq">>,       \*  style="x"
      <<"ws", "style=", "sq", "sq">>,              \*  style=''
      <<"dq", "style=", "dq", "txt", "dq">> }      \* "style="x"

InitHtml ==
    /\ pc = "input"
    /\ html \in {Flatten(cs) : cs \in SeqUpTo(HtmlChunks, MaxHtmlChunks)}
    /\ matched = <<>>
    /\ out_html = Ok(<<>>)
    /\ questions = Ok(<<>>)
    /\ NormalizeIdle /\ CodeIdle /\ FlowIdle

ParseQuizCall ==
    /\ pc = "input"
    /\ pc' = "parsed"
    /\ questions' = _parse_quiz(html)
    /\ UNCHANGED <<html, matched, out_html, normalizeVars, codeVars, flowVars>>

PostprocessLessonCall ==
    /\ pc = "input"
    /\ pc' = "lesson"
    /\ out_html' = _postprocess_lesson_html(html)
    /\ UNCHANGED <<html, matched, questions, normalizeVars, codeVars, flowVars>>

PostprocessReportCall ==
    /\ pc = "input"
    /\ pc' = "report"
    /\ \E n \in MatchedCounts :
          /\ matched' = Matched(n)
          /\ out_html' = Ok(_postprocess_report_html(html, Matched(n)))
    /\ UNCHANGED <<html, questions, normalizeVars, codeVars, flowVars>>

NextHtml == ParseQuizCall \/ PostprocessLessonCall \/ PostprocessReportCall

SpecHtml == InitHtml /\ [][NextHtml]_vars

(***************************************************************************)
(* The answer-letter hint, stated by position instead of by scanning: a    *)
(* keyword at i, one ':' somewhere between i and k, whitespace on all the  *)
(* other places between them, and a letter of [A-D] starting at k.         *)
(***************************************************************************)
IsHint(text, i, k) ==
    /\ text[i] \in Keywords
    /\ LetterIndex(text[k]) >= 0
    /\ \E j \in (i + 1) .. (k - 1) :
          /\ text[j] = ":"
          /\ \A m \in ((i + 1) .. (k - 1)) \ {j} : text[m] = "ws"

HintStarts(text) ==
    {i \in 1 .. Len(text) : \E k \in (i + 2) .. Len(text) : IsHint(text, i, k)}

\* Index of the letter of the leftmost hint of text; -1 when it has none.
FirstHint(text) ==
    IF HintStarts(text) = {} THEN -1
    ELSE LET i == CHOOSE a \in HintStarts(text) :
                      \A b \in HintStarts(text) : a <= b
             k == CHOOSE c \in (i + 2) .. Len(text) : IsHint(text, i, c)
         IN LetterIndex(text[k])

HintText == block_html \o <<"ws">> \o explanation_html
HintInRange == FirstHint(HintText) >= 0 /\ FirstHint(HintText) < options_count

\* C1: for options_count > 0 the rules apply in strict priority order:
\* (1) the answer-letter hint the text carries (its leftmost one), when its
\* index is below options_count, is returned whatever raw_correct is;
\* (2) otherwise a raw_correct in 1..options_count gives raw_correct - 1;
\* (3) otherwise a raw_correct in 0..options_count-1 is returned as it is;
\* (4) otherwise raw_correct clamped to [0, options_count - 1] is returned.
\* A hint whose index is out of range is ignored.
C1_PriorityOrder ==
    (pc = "done" /\ options_count > 0) =>
        /\ HintInRange => correct_idx = FirstHint(HintText)
        /\ (~HintInRange /\ 1 <= raw_correct /\ raw_correct <= options_count)
              => correct_idx = raw_correct - 1
        /\ (~HintInRange /\ ~(1 <= raw_correct /\ raw_correct <= options_count)
              /\ 0 <= raw_correct /\ raw_correct < options_count)
              => correct_idx = raw_correct
        /\ (~HintInRange /\ raw_correct < 0) => correct_idx = 0
        /\ (~HintInRange /\ raw_correct > options_count)
              => correct_idx = options_count - 1

\* A hint in range overrides a raw_correct that is itself a valid 1-based
\* index pointing elsewhere.
C1_Witness ==
    /\ pc = "done" /\ options_count > 0 /\ HintInRange
    /\ 1 <= raw_correct /\ raw_correct <= options_count
    /\ raw_correct - 1 # FirstHint(HintText)
    /\ correct_idx = FirstHint(HintText)

\* C2: whatever raw_correct and the texts are, the result is 0 when
\* options_count <= 0 and lies in 0 .. options_count - 1 otherwise.
C2_ResultInRange ==
    pc = "done" =>
        IF options_count <= 0 THEN correct_idx = 0
        ELSE 0 <= correct_idx /\ correct_idx <= options_count - 1

\* A raw_correct above the option count, with no usable hint, is clamped.
C2_Witness ==
    /\ pc = "done" /\ options_count > 0 /\ ~HintInRange
    /\ raw_correct > options_count
    /\ correct_idx = options_count - 1

(***************************************************************************)
(* Claims about SpecHtml.                                                  *)
(***************************************************************************)
\* C3: _parse_quiz never raises: for every input, malformed or not, it
\* returns a list (possibly empty).
C3_ParseQuizNeverRaises ==
    pc = "parsed" => ~questions.raised

\* A quiz block has an option: an opening quiz-option tag and a </div> after it.
HasOption(block) ==
    \E a, b \in 1 .. Len(block) : a < b /\ block[a] = "opt" /\ block[b] = "cdiv"

\* The blocks q_pattern delimits in html.
QuizBlocks ==
    LET ms == QMatches(html, 1)
    IN [k \in 1 .. Len(ms) |-> SubSeq(html, ms[k][1] + 1, ms[k][2] - 1)]

\* C4: every QuizQuestion returned has at least one option and a
\* correct_index with 0 <= correct_index < len(options); a quiz block from
\* which no quiz-option is extracted produces no QuizQuestion.
C4_QuestionsHaveOptions ==
    (pc = "parsed" /\ ~questions.raised) =>
        /\ \A k \in 1 .. Len(questions.value) :
              LET q == questions.value[k]
              IN /\ Len(q.options) >= 1
                 /\ 0 <= q.correct_index
                 /\ q.correct_index < Len(q.options)
        /\ Len(questions.value)
             = Cardinality({k \in 1 .. Len(QuizBlocks) : HasOption(QuizBlocks[k])})

\* A block with one closed option is emitted, and its data-correct of 2,
\* which exceeds the option count, comes back as index 0.
C4_Witness ==
    /\ pc = "parsed" /\ ~questions.raised
    /\ Len(questions.value) = 1
    /\ Len(questions.value[1].options) = 1
    /\ html[1] = "Q2"
    /\ questions.value[1].correct_index = 0

\* An empty code block starts at i: <pre>, <code>, </code>, </pre> in this
\* order with nothing but whitespace between them.
EmptyBlockAt(text, i) ==
    /\ text[i] = "pre"
    /\ \E a \in (i + 1) .. Len(text) :
          /\ text[a] = "code"
          /\ \A m \in (i + 1) .. (a - 1) : text[m] = "ws"
          /\ \E b \in (a + 1) .. Len(text) :
                /\ text[b] = "ccode"
                /\ \A m \in (a + 1) .. (b - 1) : text[m] = "ws"
                /\ \E c \in (b + 1) .. Len(text) :
                      /\ text[c] = "cpre"
                      /\ \A m \in (b + 1) .. (c - 1) : text[m] = "ws"

EmptyBlocks(text) == {i \in 1 .. Len(text) : EmptyBlockAt(text, i)}

Postprocessed == pc \in {"lesson", "report"} /\ ~out_html.raised
Placeholder == IF pc = "lesson" THEN LESSON_PLACEHOLDER ELSE REPORT_PLACEHOLDER

\* C5: the output of both post-processors holds no empty code block: every
\* empty block of the input is replaced by a block with the placeholder
\* text, and non-empty code blocks are left unchanged, so there are as many
\* placeholder blocks in the output as empty blocks in the input.
C5_EmptyBlocksReplacedOthersKept ==
    Postprocessed =>
        /\ EmptyBlocks(out_html.value) = {}
        /\ Count(out_html.value, Placeholder) = Cardinality(EmptyBlocks(html))

\* A style attribute in text: style=, a quote, and the same quote again
\* later, the name being preceded by whitespace or by the quote that closes
\* the attribute before it.
HasStyleAttribute(text) ==
    \E i \in 2 .. (Len(text) - 1) :
        /\ text[i] = "style="
        /\ text[i - 1] \in {"ws", "dq", "sq"}
        /\ text[i + 1] \in {"dq", "sq"}
        /\ \E e \in (i + 2) .. Len(text) : text[e] = text[i + 1]

\* C6: the output of _postprocess_report_html holds no style="..." and no
\* style='...' attribute, whatever precedes the attribute in the input.
C6_NoStyleAttributeLeft ==
    pc = "report" => ~HasStyleAttribute(out_html.value)

FIdSet == Range(FIds)
IdsOf(text) == SelectSeq(text, LAMBDA t : t \in FIdSet)
HeadPositions(text) == {i \in 1 .. Len(text) : text[i] = EVIDENCE_HEAD}

\* C7 as stated: the section is appended exactly when matched is non-empty,
\* and it holds the id of each matched finding, F1..Fn.
C7_EveryMatchedIdListed ==
    pc = "report" =>
        /\ (matched # <<>>) <=> (HeadPositions(out_html.value) # {})
        /\ \A k \in 1 .. Len(matched) :
              matched[k].id[1] \in Range(out_html.value)

\* C7, amended: the section is appended exactly when matched is non-empty; it
\* follows the cleaned html, which is what an empty matched list would give,
\* and it lists the ids of the first min(n, 8) matched findings in order and
\* no others.  With an empty matched list nothing is appended.
C7_EvidenceMapCapped ==
    pc = "report" =>
        LET out == out_html.value
            cleaned == _postprocess_report_html(html, <<>>)
        IN IF matched = <<>>
           THEN /\ HeadPositions(out) = {}
                /\ IdsOf(out) = <<>>
                /\ "<tr>" \notin Range(out)
           ELSE /\ Cardinality(HeadPositions(out)) = 1
                /\ \A h \in HeadPositions(out) :
                      /\ h = Len(cleaned) + 1
                      /\ SubSeq(out, 1, h - 1) = cleaned
                /\ out[Len(out)] = EVIDENCE_TAIL
                /\ IdsOf(out)
                     = [k \in 1 .. Min(Len(matched), EVIDENCE_ROWS) |-> FIds[k]]
                /\ Count(out, "<tr>") = Min(Len(matched), EVIDENCE_ROWS)

\* More findings matched than the table has rows.
C7_Witness ==
    /\ pc = "report"
    /\ Len(matched) > EVIDENCE_ROWS
    /\ HeadPositions(out_html.value) # {}
    /\ Len(IdsOf(out_html.value)) = EVIDENCE_ROWS

(***************************************************************************)
(* scout.py: _parse_contract, and function_analyzer.py: analyze.           *)
(*                                                                         *)
(* The Solidity text is a sequence of lines, each drawn from Words.  No    *)
(* regular expression of the two functions matches across a line break of  *)
(* these lines, so a search of the text is a search of its lines, and the  *)
(* two tables below record, line by line, what the source's expressions    *)
(* match and capture.  Confidence is counted in tenths: 0.1 is 1.          *)
(***************************************************************************)
Words ==
    {"function foo() external",
     "contract Token {",
     "modifier onlyOwner() {",
     "require(msg.sender == vault, 'Ownable')",
     "block.timestamp",
     "to.send(1)",
     "pool.flashLoan(1)",
     "approve(",
     "balanceOfBatch",
     "ERC1155",
     "ownerOf",
     "ERC721",
     "maxDeposit",
     "previewMint",
     "x = 1",
     "import {IERC20} from './IERC20.sol';",
     "  uint256 public total;",
     "abi.encode(x)"}

_ERC_PATTERNS ==
    <<[name |-> "ERC20",
       patterns |-> <<"totalSupply", "balanceOf", "transfer\\s*\\(", "approve\\s*\\(", "transferFrom">>],
      [name |-> "ERC721",
       patterns |-> <<"ownerOf", "safeTransferFrom", "tokenURI", "ERC721">>],
      [name |-> "ERC1155",
       patterns |-> <<"balanceOfBatch", "safeBatchTransferFrom", "ERC1155">>],
      [name |-> "ERC4626",
       patterns |-> <<"convertToShares", "convertToAssets", "maxDeposit", "previewMint">>]>>

FUNCTION_TYPE_PATTERNS ==
    <<[pattern |-> "deposit|stake|supply", func_type |-> "deposit"],
      [pattern |-> "withdraw|unstake|redeem", func_type |-> "withdraw"],
      [pattern |-> "mint", func_type |-> "mint"],
      [pattern |-> "burn", func_type |-> "burn"],
      [pattern |-> "swap", func_type |-> "swap"],
      [pattern |-> "addLiquidity|add_liquidity", func_type |-> "add_liquidity"],
      [pattern |-> "removeLiquidity|remove_liquidity", func_type |-> "remove_liquidity"],
      [pattern |-> "borrow", func_type |-> "borrow"],
      [pattern |-> "repay", func_type |-> "repay"],
      [pattern |-> "liquidat", func_type |-> "liquidate"],
      [pattern |-> "collateral", func_type |-> "collateral"],
      [pattern |-> "transfer|send", func_type |-> "transfer"],
      [pattern |-> "approve", func_type |-> "approve"],
      [pattern |-> "claim|harvest", func_type |-> "claim"],
      [pattern |-> "balance|balances", func_type |-> "accounting"],
      [pattern |-> "set|update|change", func_type |-> "admin"],
      [pattern |-> "pause|unpause", func_type |-> "pause"],
      [pattern |-> "initialize|init", func_type |-> "initialize"]>>

PROTOCOL_TYPE_PATTERNS ==
    <<[pattern |-> "ERC4626|convertToShares|convertToAssets|previewDeposit|previewRedeem",
       proto |-> "Vault"],
      [pattern |-> "vault|Vault",
       proto |-> "Vault"],
      [pattern |-> "borrow|repay|liquidat|collateral|healthFactor|LTV",
       proto |-> "Lending"],
      [pattern |-> "Aave|Compound|Euler",
       proto |-> "Lending"],
      [pattern |-> "swap|getAmountOut|getAmountIn|reserves|k\\s*=",
       proto |-> "DEX"],
      [pattern |-> "Uniswap|Curve|Balancer|SushiSwap",
       proto |-> "DEX"],
      [pattern |-> "addLiquidity|removeLiquidity|LP|liquidity",
       proto |-> "DEX"],
      [pattern |-> "stake|unstake|reward|rewardRate|earned",
       proto |-> "Staking"],
      [pattern |-> "bridge|cross.*chain|relay|message",
       proto |-> "Bridge"],
      [pattern |-> "oracle|price|latestRoundData|chainlink|getPrice",
       proto |-> "Oracle"],
      [pattern |-> "ERC721|ERC1155|tokenURI|ownerOf",
       proto |-> "NFT"]>>

RISK_PATTERNS ==
    <<[pattern |-> "\\.call\\{|\\.call\\(|\\(bool\\s+success",
       tag |-> "Reentrancy",
       kws |-> <<"reentrancy", "external call">>],
      [pattern |-> "transferFrom|safeTransferFrom|transfer\\(",
       tag |-> "Reentrancy",
       kws |-> <<"token transfer", "reentrancy">>],
      [pattern |-> "latestRoundData|getPrice|oracle",
       tag |-> "Oracle",
       kws |-> <<"oracle manipulation", "price">>],
      [pattern |-> "TWAP|twap",
       tag |-> "Oracle",
       kws |-> <<"TWAP", "time-weighted">>],
      [pattern |-> "\\/\\s*\\d+|mulDiv|\\/\\s*1e",
       tag |-> "Precision",
       kws |-> <<"precision loss", "rounding">>],
      [pattern |-> "unchecked\\s*\\{",
       tag |-> "Precision",
       kws |-> <<"overflow", "underflow">>],
      [pattern |-> "flashLoan|flash.*loan",
       tag |-> "Flash Loan",
       kws |-> <<"flash loan">>],
      [pattern |-> "onlyOwner|require\\(msg\\.sender|onlyRole",
       tag |-> "Access Control",
       kws |-> <<"access control">>],
      [pattern |-> "Ownable|AccessControl",
       tag |-> "Access Control",
       kws |-> <<"access control">>],
      [pattern |-> "slippage|deadline|minAmount|amountOutMin",
       tag |-> "Slippage",
       kws |-> <<"slippage", "frontrunning">>],
      [pattern |-> "block\\.timestamp|now",
       tag |-> "Timestamp",
       kws |-> <<"timestamp">>],
      [pattern |-> "delegatecall",
       tag |-> "Delegatecall",
       kws |-> <<"delegatecall", "proxy">>],
      [pattern |-> "ecrecover|signature|ECDSA",
       tag |-> "Signature",
       kws |-> <<"signature", "replay">>],
      [pattern |-> "\\bbalance(?:s|Of)?\\b|_balances\\b|userBalance|totalBalance|pendingBalance",
       tag |-> "Balance Accounting",
       kws |-> <<"balance accounting", "state sync", "double claim", "incorrect accounting">>],
      [pattern |-> "shareBalance|creatorBalance|ownerBalance|claimable|accrued|pending",
       tag |-> "Balance Accounting",
       kws |-> <<"claim accounting", "reward accounting", "balance desync">>],
      [pattern |-> "totalSupply|totalAssets|convertToShares|convertToAssets",
       tag |-> "Balance Accounting",
       kws |-> <<"share accounting", "asset accounting", "vault accounting">>]>>

\* The lines in which re.search(pattern, line) finds a match.
LinesMatching(pattern) ==
    CASE pattern = "balanceOf" ->
              {"balanceOfBatch"}
      [] pattern = "approve\\s*\\(" ->
              {"approve("}
      [] pattern = "ownerOf" ->
              {"ownerOf"}
      [] pattern = "ERC721" ->
              {"ERC721"}
      [] pattern = "balanceOfBatch" ->
              {"balanceOfBatch"}
      [] pattern = "ERC1155" ->
              {"ERC1155"}
      [] pattern = "maxDeposit" ->
              {"maxDeposit"}
      [] pattern = "previewMint" ->
              {"previewMint"}
      [] OTHER -> {}

\* The lines in which re.search(pattern, line, re.IGNORECASE) finds a match.
LinesMatchingIgnoreCase(pattern) ==
    CASE pattern = "deposit|stake|supply" ->
              {"maxDeposit"}
      [] pattern = "mint" ->
              {"previewMint"}
      [] pattern = "transfer|send" ->
              {"require(msg.sender == vault, 'Ownable')", "to.send(1)"}
      [] pattern = "approve" ->
              {"approve("}
      [] pattern = "balance|balances" ->
              {"balanceOfBatch"}
      [] pattern = "vault|Vault" ->
              {"require(msg.sender == vault, 'Ownable')"}
      [] pattern = "ERC721|ERC1155|tokenURI|ownerOf" ->
              {"ERC1155", "ownerOf", "ERC721"}
      [] pattern = "flashLoan|flash.*loan" ->
              {"pool.flashLoan(1)"}
      [] pattern = "onlyOwner|require\\(msg\\.sender|onlyRole" ->
              {"modifier onlyOwner() {", "require(msg.sender == vault, 'Ownable')"}
      [] pattern = "Ownable|AccessControl" ->
              {"require(msg.sender == vault, 'Ownable')"}
      [] pattern = "block\\.timestamp|now" ->
              {"block.timestamp"}
      [] OTHER -> {}

name_re ==
    "contract\\s+(\\w+)"

import_re ==
    "import\\s+[{\"]([^\"};]+)"

state_re ==
    "^\\s+(?:mapping|uint|int|address|bool|bytes|string|IERC\\w+)\\S*\\s+(?:public|private|internal|immutable|constant)?\\s*(\\w+)"

func_re ==
    "function\\s+(\\w+)\\s*\\(([^)]*)\\)\\s*((?:external|public|internal|private|view|pure|payable|virtual|override|returns\\s*\\([^)]*\\)|\\s)*)"

call_re ==
    "(\\w+)\\.(call|delegatecall|staticcall|transfer|send)\\s*[({]"

mod_re ==
    "modifier\\s+(\\w+)"

function_name_re ==
    "function\\s+(\\w+)"

external_call_re ==
    "(\\w+)\\s*\\.\\s*(\\w+)\\s*\\("

state_change_re ==
    "(\\w+)\\s*(?:=|\\+=|-=|\\*=|\\/=)"

\* What finditer(pattern, line) captures in one line, match by match.
Captures(pattern, line) ==
    CASE pattern = name_re /\ line = "contract Token {" ->
              <<"Token">>
      [] pattern = import_re /\ line = "import {IERC20} from './IERC20.sol';" ->
              <<"IERC20">>
      [] pattern = state_re /\ line = "  uint256 public total;" ->
              <<"total">>
      [] pattern = func_re /\ line = "function foo() external" ->
              <<[name |-> "foo", params |-> "", modifiers |-> "external"]>>
      [] pattern = call_re /\ line = "to.send(1)" ->
              <<<<"to", "send">>>>
      [] pattern = mod_re /\ line = "modifier onlyOwner() {" ->
              <<"onlyOwner">>
      [] pattern = function_name_re /\ line = "function foo() external" ->
              <<"foo">>
      [] pattern = external_call_re /\ line = "to.send(1)" ->
              <<<<"to", "send">>>>
      [] pattern = external_call_re /\ line = "pool.flashLoan(1)" ->
              <<<<"pool", "flashLoan">>>>
      [] pattern = external_call_re /\ line = "abi.encode(x)" ->
              <<<<"abi", "encode">>>>
      [] pattern = state_change_re /\ line = "require(msg.sender == vault, 'Ownable')" ->
              <<"sender">>
      [] pattern = state_change_re /\ line = "x = 1" ->
              <<"x">>
      [] OTHER -> <<>>

\* str.lower on the protocol labels.
Lower(s) ==
    CASE s = "Bridge" -> "bridge"
      [] s = "DEX" -> "dex"
      [] s = "Lending" -> "lending"
      [] s = "NFT" -> "nft"
      [] s = "Oracle" -> "oracle"
      [] s = "Staking" -> "staking"
      [] s = "Vault" -> "vault"
      [] OTHER -> s

re_search(pattern, text) ==
    \E i \in DOMAIN text : text[i] \in LinesMatching(pattern)

re_search_ignorecase(pattern, text) ==
    \E i \in DOMAIN text : text[i] \in LinesMatchingIgnoreCase(pattern)

\* The captures of every match of the pattern in the text, in text order.
finditer(pattern, text) ==
    Flatten([i \in DOMAIN text |-> Captures(pattern, text[i])])

\* s[:n]
Take(s, n) == SubSeq(s, 1, Min(n, Len(s)))

RECURSIVE list_of_set(_, _)
\* list(S)[:n] for a set S: the iteration order of a set of strings is not
\* fixed, so every order of the members is a possible list.
list_of_set(S, n) ==
    IF n = 0 \/ S = {} THEN {<<>>}
    ELSE UNION {{<<e>> \o rest : rest \in list_of_set(S \ {e}, n - 1)} : e \in S}

\* ContractInfo() and CodeContext(): the dataclass defaults.
ContractInfo ==
    [name |-> "", ercs_detected |-> <<>>, functions |-> <<>>, imports |-> <<>>,
     state_variables |-> <<>>, external_calls |-> <<>>, modifiers_used |-> <<>>,
     loc |-> 0]

CodeContext ==
    [function_name |-> "", function_type |-> "", protocol_type |-> "",
     risk_patterns |-> <<>>, external_calls |-> <<>>, state_changes |-> <<>>,
     suggested_tags |-> <<>>, suggested_keywords |-> <<>>, confidence |-> 0]

\* The number of sub-patterns of one standard that match the text.
ErcMatches(patterns, text) ==
    Cardinality({j \in DOMAIN patterns : re_search(patterns[j], text)})

\* Variant: one matching sub-pattern is enough.
ErcsDetected_any_match(text) ==
    LET hit == SelectSeq(_ERC_PATTERNS,
                         LAMBDA r : ErcMatches(r.patterns, text) >= 1)
    IN [i \in DOMAIN hit |-> hit[i].name]

\* The loop over _ERC_PATTERNS: the standards with at least 2 matches.
ErcsDetected(text) ==
    LET hit == SelectSeq(_ERC_PATTERNS,
                         LAMBDA r : ErcMatches(r.patterns, text) >= 2)
    IN [i \in DOMAIN hit |-> hit[i].name]

\* The ContractInfo values _parse_contract can return for the text.
_parse_contract(text) ==
    LET names == finditer(name_re, text)
        calls == Range(finditer(call_re, text))
    IN {[name |-> IF names # <<>> THEN Head(names) ELSE "",
         ercs_detected |-> ErcsDetected(text),
         functions |-> finditer(func_re, text),
         imports |-> finditer(import_re, text),
         state_variables |-> Take(finditer(state_re, text), 30),
         external_calls |-> listed,
         modifiers_used |-> finditer(mod_re, text),
         loc |-> Len(text)] :
            listed \in list_of_set(calls, Cardinality(calls))}

\* The objects whose method calls analyze does not count as external calls.
NotExternal == {"msg", "block", "tx", "abi", "require", "assert"}

\* Variant: a function name alone earns nothing.
Confidence_without_name(c) ==
    LET c2 == IF c.function_type # "" THEN 2 ELSE 0
        c3 == IF c.protocol_type # "" THEN c2 + 3 ELSE c2
        c4 == IF c.risk_patterns # <<>>
              THEN c3 + Min(Len(c.risk_patterns) * 1, 3) ELSE c3
        c5 == IF c.external_calls # <<>> THEN c4 + 1 ELSE c4
    IN Min(c5, 10)

\* Variant: every risk entry earns a tenth, without the cap at three.
Confidence_uncapped_risk(c) ==
    LET c1 == IF c.function_name # "" THEN 1 ELSE 0
        c2 == IF c.function_type # "" THEN c1 + 2 ELSE c1
        c3 == IF c.protocol_type # "" THEN c2 + 3 ELSE c2
        c4 == IF c.risk_patterns # <<>>
              THEN c3 + Len(c.risk_patterns) * 1 ELSE c3
        c5 == IF c.external_calls # <<>> THEN c4 + 1 ELSE c4
    IN Min(c5, 10)

\* The confidence score of a context, step by step as analyze adds it up.
Confidence(c) ==
    LET c1 == IF c.function_name # "" THEN 1 ELSE 0
        c2 == IF c.function_type # "" THEN c1 + 2 ELSE c1
        c3 == IF c.protocol_type # "" THEN c2 + 3 ELSE c2
        c4 == IF c.risk_patterns # <<>>
              THEN c3 + Min(Len(c.risk_patterns) * 1, 3) ELSE c3
        c5 == IF c.external_calls # <<>> THEN c4 + 1 ELSE c4
    IN Min(c5, 10)

\* Variant: the matching rows of a registry, the last row first.
MatchingRows_last_row_first(table, text) ==
    LET rows == SelectSeq(table, LAMBDA r : re_search_ignorecase(r.pattern, text))
    IN [i \in 1 .. Len(rows) |-> rows[Len(rows) + 1 - i]]

\* The rows of a registry whose pattern matches the text, in table order.
MatchingRows(table, text) ==
    SelectSeq(table, LAMBDA r : re_search_ignorecase(r.pattern, text))

\* The CodeContext values analyze can return for the text.
analyze(text) ==
    LET m == finditer(function_name_re, text)
        types == MatchingRows(FUNCTION_TYPE_PATTERNS, text)
        protos == MatchingRows(PROTOCOL_TYPE_PATTERNS, text)
        risks == MatchingRows(RISK_PATTERNS, text)
        function_type == IF types # <<>> THEN Head(types).func_type ELSE ""
        protocol_type == IF protos # <<>> THEN Head(protos).proto ELSE ""
        risk_patterns == [i \in DOMAIN risks |-> risks[i].tag]
        tags == Range(risk_patterns)
        keywords ==
            UNION {Range(risks[i].kws) : i \in DOMAIN risks}
                \cup (IF function_type # "" THEN {function_type} ELSE {})
                \cup (IF protocol_type # "" THEN {Lower(protocol_type)} ELSE {})
        found == SelectSeq(finditer(external_call_re, text),
                           LAMBDA call : call[1] \notin NotExternal)
        state == Range(finditer(state_change_re, text))
        fields == [function_name |-> IF m # <<>> THEN Head(m) ELSE "",
                   function_type |-> function_type,
                   protocol_type |-> protocol_type,
                   risk_patterns |-> risk_patterns,
                   external_calls |-> Take(found, 10)]
    IN {[function_name |-> fields.function_name,
         function_type |-> function_type,
         protocol_type |-> protocol_type,
         risk_patterns |-> risk_patterns,
         external_calls |-> fields.external_calls,
         state_changes |-> changes,
         suggested_tags |-> suggested_tags,
         suggested_keywords |-> suggested_keywords,
         confidence |-> Confidence(fields)] :
            changes \in list_of_set(state, 5),
            suggested_tags \in list_of_set(tags, 3),
            suggested_keywords \in list_of_set(keywords, 5)}

(***************************************************************************)
(* SpecCode: generate_report's first two steps on one file: the contract   *)
(* is parsed, then the same text is analyzed.                              *)
(***************************************************************************)
MaxCodeLen == 3

InitCode ==
    /\ pc = "input"
    /\ code \in SeqUpTo(Words, MaxCodeLen)
    /\ info = ContractInfo
    /\ ctx = CodeContext
    /\ NormalizeIdle
    /\ HtmlIdle
    /\ FlowIdle

ParseContractCall ==
    /\ pc = "input"
    /\ info' \in _parse_contract(code)
    /\ pc' = "contract"
    /\ UNCHANGED <<code, ctx, normalizeVars, htmlVars, flowVars>>

AnalyzeCall ==
    /\ pc = "contract"
    /\ ctx' \in analyze(code)
    /\ pc' = "analyzed"
    /\ UNCHANGED <<code, info, normalizeVars, htmlVars, flowVars>>

NextCode == ParseContractCall \/ AnalyzeCall

SpecCode == InitCode /\ [][NextCode]_vars

(***************************************************************************)
(* Claims about _parse_contract and analyze, checked under SpecCode.       *)
(***************************************************************************)
Parsed == pc = "contract"
Analyzed == pc = "analyzed"
Detected == Range(info.ercs_detected)

\* C8: a standard is in ercs_detected exactly when at least 2 of its
\* sub-patterns match the code; a further line, which can only turn
\* unmatched sub-patterns into matched ones, removes no standard from the
\* list; and each standard is decided by its own sub-patterns only.
C8_ErcThresholdMonotone ==
    Parsed =>
        /\ \A k \in DOMAIN _ERC_PATTERNS :
              _ERC_PATTERNS[k].name \in Detected
                  <=> Cardinality({p \in Range(_ERC_PATTERNS[k].patterns) :
                                      re_search(p, code)}) >= 2
        /\ \A std \in Detected : \A line \in Words :
              std \in Range(ErcsDetected(Append(code, line)))

\* Two standards are detected for one code, the line balanceOfBatch counting
\* for both, while the other standards have no match and are not detected.
C8_Witness ==
    /\ pc = "contract"
    /\ Detected = {"ERC20", "ERC1155"}
    /\ "balanceOfBatch" \in Range(code)
    /\ ~re_search("ERC721", code)

\* No row of the three registries matches the code.
NoRegistryMatch ==
    \A table \in {FUNCTION_TYPE_PATTERNS, PROTOCOL_TYPE_PATTERNS, RISK_PATTERNS} :
        \A k \in DOMAIN table : ~re_search_ignorecase(table[k].pattern, code)

\* The code declares no function and calls no method of an outside object.
NoNameNoCall ==
    /\ finditer(function_name_re, code) = <<>>
    /\ \A k \in DOMAIN finditer(external_call_re, code) :
          finditer(external_call_re, code)[k][1] \in NotExternal

\* C9, as stated: the confidence lies in [0,1], it is 0.0 whenever no
\* registry pattern matches the code, and the empty input yields the
\* default context.
C9_ZeroWhenNoRegistryMatch ==
    Analyzed =>
        /\ ctx.confidence \in 0 .. 10
        /\ NoRegistryMatch => ctx.confidence = 0
        /\ code = <<>> => ctx = CodeContext

\* C9, amended: the confidence lies in [0,1]; it is 0.0 exactly when no
\* registry pattern matches the code and the code has neither a function
\* declaration nor a counted external call; the empty input yields the
\* default context.
C9_ZeroIffNothingFound ==
    Analyzed =>
        /\ ctx.confidence \in 0 .. 10
        /\ ctx.confidence = 0 <=> (NoRegistryMatch /\ NoNameNoCall)
        /\ code = <<>> => ctx = CodeContext

\* A non-empty code for which nothing is found scores 0.0, although analyze
\* did extract something from it.
C9_Witness ==
    /\ Analyzed
    /\ NoRegistryMatch /\ NoNameNoCall
    /\ ctx.confidence = 0
    /\ ctx.state_changes # <<>>

\* The closed form of the score, in tenths.
ClosedForm(c) ==
    Min(10, (IF c.function_name # "" THEN 1 ELSE 0)
            + (IF c.function_type # "" THEN 2 ELSE 0)
            + (IF c.protocol_type # "" THEN 3 ELSE 0)
            + Min(Len(c.risk_patterns), 3)
            + (IF c.external_calls # <<>> THEN 1 ELSE 0))

\* The contexts that differ from c by one empty field made non-empty or by
\* one more risk entry, a tag the list already holds or another one.
Grown(c) ==
    {[c EXCEPT !.function_name = IF @ = "" THEN "f" ELSE @],
     [c EXCEPT !.function_type = IF @ = "" THEN "admin" ELSE @],
     [c EXCEPT !.protocol_type = IF @ = "" THEN "DEX" ELSE @],
     [c EXCEPT !.external_calls = IF @ = <<>> THEN <<<<"a", "b">>>> ELSE @]}
        \cup {[c EXCEPT !.risk_patterns = Append(@, tag)] :
                 tag \in Range(c.risk_patterns) \cup {"Delegatecall"}}

\* C10: the confidence equals min(1.0, 0.1 [name] + 0.2 [type] +
\* 0.3 [protocol] + min(0.1 * len(risk_patterns), 0.3) + 0.1 [external
\* calls]), and making an empty field non-empty or adding a risk entry
\* never lowers it.
C10_ConfidenceClosedForm ==
    Analyzed =>
        /\ ctx.confidence = ClosedForm(ctx)
        /\ \A g \in Grown(ctx) : Confidence(g) >= ctx.confidence

\* More than three risk entries count as three.
C10_Witness ==
    /\ Analyzed
    /\ Len(ctx.risk_patterns) > 3
    /\ ctx.function_name = ""
    /\ ctx.confidence = 9

\* The first row of the risk table that carries the tag.
TagRow(tag) ==
    CHOOSE k \in DOMAIN RISK_PATTERNS :
        /\ RISK_PATTERNS[k].tag = tag
        /\ \A j \in 1 .. k - 1 : RISK_PATTERNS[j].tag # tag

\* No entry of the list occurs twice.
Distinct(s) == \A i, j \in DOMAIN s : s[i] = s[j] => i = j

\* C11: the risk_patterns list returned by analyze holds each risk tag at
\* most once, also when several rows with the same tag match the code, and
\* its tags are in risk-table order.
C11_RiskPatternsSetLike ==
    Analyzed =>
        /\ Distinct(ctx.risk_patterns)
        /\ \A i, j \in DOMAIN ctx.risk_patterns :
              i < j => TagRow(ctx.risk_patterns[i]) <= TagRow(ctx.risk_patterns[j])

\* The rows of a registry whose pattern matches the code, as row numbers.
Hits(table) ==
    {k \in DOMAIN table : re_search_ignorecase(table[k].pattern, code)}

\* The lowest row number of a non-empty set of rows.
FirstRow(rows) == CHOOSE k \in rows : \A j \in rows : k <= j

\* C12: function_type is the label of the first row, in declaration order,
\* of the function-type table whose pattern matches the code
\* case-insensitively, and is empty if no row matches; protocol_type is
\* chosen the same way from the protocol table; rows after the first match
\* never change the result.
C12_FirstMatchWins ==
    Analyzed =>
        LET types == Hits(FUNCTION_TYPE_PATTERNS)
            protos == Hits(PROTOCOL_TYPE_PATTERNS)
        IN /\ ctx.function_type =
                 IF types = {} THEN ""
                 ELSE FUNCTION_TYPE_PATTERNS[FirstRow(types)].func_type
           /\ ctx.protocol_type =
                 IF protos = {} THEN ""
                 ELSE PROTOCOL_TYPE_PATTERNS[FirstRow(protos)].proto

\* A code that matches the deposit row and a later row of the function-type
\* table, and two rows of the protocol table with different labels: the
\* earlier rows decide.
C12_Witness ==
    /\ Analyzed
    /\ ctx.function_type = "deposit"
    /\ \E k \in Hits(FUNCTION_TYPE_PATTERNS) : FUNCTION_TYPE_PATTERNS[k].func_type # "deposit"
    /\ ctx.protocol_type = "Vault"
    /\ \E k \in Hits(PROTOCOL_TYPE_PATTERNS) : PROTOCOL_TYPE_PATTERNS[k].proto = "NFT"

\* The entries of a list without the repetitions, each at the place of its
\* first occurrence.
RECURSIVE FirstSeen(_)
FirstSeen(s) ==
    IF s = <<>> THEN <<>>
    ELSE LET r == FirstSeen(SubSeq(s, 1, Len(s) - 1))
         IN IF s[Len(s)] \in Range(r) THEN r ELSE Append(r, s[Len(s)])

\* The keywords in the order in which analyze adds them: those of the
\* matching risk rows, row by row, then the function type, then the
\* lower-cased protocol type.
KeywordsAsInserted ==
    LET risks == SelectSeq(RISK_PATTERNS,
                           LAMBDA r : re_search_ignorecase(r.pattern, code))
    IN Flatten([i \in DOMAIN risks |-> risks[i].kws])
          \o (IF ctx.function_type # "" THEN <<ctx.function_type>> ELSE <<>>)
          \o (IF ctx.protocol_type # "" THEN <<Lower(ctx.protocol_type)>> ELSE <<>>)

\* C13: suggested_tags is the first 3 distinct matched risk tags in
\* risk-table order and suggested_keywords the first 5 distinct keywords in
\* insertion order, so every analysis of the same code yields the same two
\* lists, in membership and in order.
C13_SuggestionsDeterministic ==
    Analyzed =>
        /\ ctx.suggested_tags = Take(FirstSeen(ctx.risk_patterns), 3)
        /\ ctx.suggested_keywords = Take(FirstSeen(KeywordsAsInserted), 5)
        /\ \A other \in analyze(code) :
              /\ other.suggested_tags = ctx.suggested_tags
              /\ other.suggested_keywords = ctx.suggested_keywords

(***************************************************************************)
(* Text as characters.  The query strings, the hint, the selection name    *)
(* and the texts of a finding are sequences of one-character strings, so   *)
(* that lower(), strip(), split(), slicing and the substring test `in` are *)
(* computed on the characters themselves.  The labels of the registries    *)
(* stay whole strings; Chars spells one out.                               *)
(***************************************************************************)
Whitespace == {" ", "\n", "\t"}

\* str.lower / str.upper on one ASCII character.
LowerChar(c) ==
    CASE c = "A" -> "a" [] c = "B" -> "b" [] c = "C" -> "c" [] c = "D" -> "d"
      [] c = "E" -> "e" [] c = "F" -> "f" [] c = "G" -> "g" [] c = "H" -> "h"
      [] c = "I" -> "i" [] c = "J" -> "j" [] c = "K" -> "k" [] c = "L" -> "l"
      [] c = "M" -> "m" [] c = "N" -> "n" [] c = "O" -> "o" [] c = "P" -> "p"
      [] c = "Q" -> "q" [] c = "R" -> "r" [] c = "S" -> "s" [] c = "T" -> "t"
      [] c = "U" -> "u" [] c = "V" -> "v" [] c = "W" -> "w" [] c = "X" -> "x"
      [] c = "Y" -> "y" [] c = "Z" -> "z" [] OTHER -> c
UpperChar(c) ==
    CASE c = "a" -> "A" [] c = "b" -> "B" [] c = "c" -> "C" [] c = "d" -> "D"
      [] c = "e" -> "E" [] c = "f" -> "F" [] c = "g" -> "G" [] c = "h" -> "H"
      [] c = "i" -> "I" [] c = "j" -> "J" [] c = "k" -> "K" [] c = "l" -> "L"
      [] c = "m" -> "M" [] c = "n" -> "N" [] c = "o" -> "O" [] c = "p" -> "P"
      [] c = "q" -> "Q" [] c = "r" -> "R" [] c = "s" -> "S" [] c = "t" -> "T"
      [] c = "u" -> "U" [] c = "v" -> "V" [] c = "w" -> "W" [] c = "x" -> "X"
      [] c = "y" -> "Y" [] c = "z" -> "Z" [] OTHER -> c

str_lower(s) == [i \in DOMAIN s |-> LowerChar(s[i])]
str_upper(s) == [i \in DOMAIN s |-> UpperChar(s[i])]

\* needle in hay: the substring test.
str_in(needle, hay) ==
    \E i \in 0 .. Len(hay) - Len(needle) :
        SubSeq(hay, i + 1, i + Len(needle)) = needle

\* sep.join(parts)
RECURSIVE str_join(_, _)
str_join(sep, parts) ==
    IF parts = <<>> THEN <<>>
    ELSE IF Len(parts) = 1 THEN parts[1]
    ELSE parts[1] \o sep \o str_join(sep, Tail(parts))

\* s.lstrip(chars), s.rstrip(chars) for a set of characters, and s.strip().
RECURSIVE str_lstrip(_, _)
str_lstrip(s, cs) ==
    IF s # <<>> /\ Head(s) \in cs THEN str_lstrip(Tail(s), cs) ELSE s
RECURSIVE str_rstrip(_, _)
str_rstrip(s, cs) ==
    IF s # <<>> /\ s[Len(s)] \in cs
    THEN str_rstrip(SubSeq(s, 1, Len(s) - 1), cs) ELSE s
str_strip(s) == str_rstrip(str_lstrip(s, Whitespace), Whitespace)

\* s.split(): the maximal runs of non-whitespace characters.
RECURSIVE str_split(_)
str_split(s) ==
    LET t == str_lstrip(s, Whitespace)
        n == IF \E i \in DOMAIN t : t[i] \in Whitespace
             THEN (CHOOSE i \in DOMAIN t :
                      /\ t[i] \in Whitespace
                      /\ \A j \in 1 .. i - 1 : t[j] \notin Whitespace) - 1
             ELSE Len(t)
    IN IF t = <<>> THEN <<>>
       ELSE <<SubSeq(t, 1, n)>> \o str_split(SubSeq(t, n + 1, Len(t)))

\* A whole string spelled out, character by character.
Chars(s) ==
    CASE s = "" -> <<>>
      [] s = "deposit" ->
           <<"d", "e", "p", "o", "s", "i", "t">>
      [] s = "withdraw" ->
           <<"w", "i", "t", "h", "d", "r", "a", "w">>
      [] s = "mint" ->
           <<"m", "i", "n", "t">>
      [] s = "burn" ->
           <<"b", "u", "r", "n">>
      [] s = "swap" ->
           <<"s", "w", "a", "p">>
      [] s = "add_liquidity" ->
           <<"a", "d", "d", "_", "l", "i", "q", "u", "i", "d", "i", "t", "y">>
      [] s = "remove_liquidity" ->
           <<"r", "e", "m", "o", "v", "e", "_", "l", "i", "q", "u", "i", "d", "i", "t", "y">>
      [] s = "borrow" ->
           <<"b", "o", "r", "r", "o", "w">>
      [] s = "repay" ->
           <<"r", "e", "p", "a", "y">>
      [] s = "liquidate" ->
           <<"l", "i", "q", "u", "i", "d", "a", "t", "e">>
      [] s = "collateral" ->
           <<"c", "o", "l", "l", "a", "t", "e", "r", "a", "l">>
      [] s = "transfer" ->
           <<"t", "r", "a", "n", "s", "f", "e", "r">>
      [] s = "approve" ->
           <<"a", "p", "p", "r", "o", "v", "e">>
      [] s = "claim" ->
           <<"c", "l", "a", "i", "m">>
      [] s = "accounting" ->
           <<"a", "c", "c", "o", "u", "n", "t", "i", "n", "g">>
      [] s = "admin" ->
           <<"a", "d", "m", "i", "n">>
      [] s = "pause" ->
           <<"p", "a", "u", "s", "e">>
      [] s = "initialize" ->
           <<"i", "n", "i", "t", "i", "a", "l", "i", "z", "e">>
      [] s = "Vault" ->
           <<"V", "a", "u", "l", "t">>
      [] s = "Lending" ->
           <<"L", "e", "n", "d", "i", "n", "g">>
      [] s = "DEX" ->
           <<"D", "E", "X">>
      [] s = "Staking" ->
           <<"S", "t", "a", "k", "i", "n", "g">>
      [] s = "Bridge" ->
           <<"B", "r", "i", "d", "g", "e">>
      [] s = "Oracle" ->
           <<"O", "r", "a", "c", "l", "e">>
      [] s = "NFT" ->
           <<"N", "F", "T">>
      [] s = "vault" ->
           <<"v", "a", "u", "l", "t">>
      [] s = "lending" ->
           <<"l", "e", "n", "d", "i", "n", "g">>
      [] s = "dex" ->
           <<"d", "e", "x">>
      [] s = "staking" ->
           <<"s", "t", "a", "k", "i", "n", "g">>
      [] s = "bridge" ->
           <<"b", "r", "i", "d", "g", "e">>
      [] s = "oracle" ->
           <<"o", "r", "a", "c", "l", "e">>
      [] s = "nft" ->
           <<"n", "f", "t">>
      [] s = "amm" ->
           <<"a", "m", "m">>
      [] s = "Reentrancy" ->
           <<"R", "e", "e", "n", "t", "r", "a", "n", "c", "y">>
      [] s = "reentrancy" ->
           <<"r", "e", "e", "n", "t", "r", "a", "n", "c", "y">>
      [] s = "external call" ->
           <<"e", "x", "t", "e", "r", "n", "a", "l", " ", "c", "a", "l", "l">>
      [] s = "token transfer" ->
           <<"t", "o", "k", "e", "n", " ", "t", "r", "a", "n", "s", "f", "e", "r">>
      [] s = "oracle manipulation" ->
           <<"o", "r", "a", "c", "l", "e", " ", "m", "a", "n", "i", "p", "u", "l", "a", "t", "i", "o", "n">>
      [] s = "price" ->
           <<"p", "r", "i", "c", "e">>
      [] s = "TWAP" ->
           <<"T", "W", "A", "P">>
      [] s = "time-weighted" ->
           <<"t", "i", "m", "e", "-", "w", "e", "i", "g", "h", "t", "e", "d">>
      [] s = "Precision" ->
           <<"P", "r", "e", "c", "i", "s", "i", "o", "n">>
      [] s = "precision loss" ->
           <<"p", "r", "e", "c", "i", "s", "i", "o", "n", " ", "l", "o", "s", "s">>
      [] s = "rounding" ->
           <<"r", "o", "u", "n", "d", "i", "n", "g">>
      [] s = "overflow" ->
           <<"o", "v", "e", "r", "f", "l", "o", "w">>
      [] s = "underflow" ->
           <<"u", "n", "d", "e", "r", "f", "l", "o", "w">>
      [] s = "Flash Loan" ->
           <<"F", "l", "a", "s", "h", " ", "L", "o", "a", "n">>
      [] s = "flash loan" ->
           <<"f", "l", "a", "s", "h", " ", "l", "o", "a", "n">>
      [] s = "Access Control" ->
           <<"A", "c", "c", "e", "s", "s", " ", "C", "o", "n", "t", "r", "o", "l">>
      [] s = "access control" ->
           <<"a", "c", "c", "e", "s", "s", " ", "c", "o", "n", "t", "r", "o", "l">>
      [] s = "Slippage" ->
           <<"S", "l", "i", "p", "p", "a", "g", "e">>
      [] s = "slippage" ->
           <<"s", "l", "i", "p", "p", "a", "g", "e">>
      [] s = "frontrunning" ->
           <<"f", "r", "o", "n", "t", "r", "u", "n", "n", "i", "n", "g">>
      [] s = "Timestamp" ->
           <<"T", "i", "m", "e", "s", "t", "a", "m", "p">>
      [] s = "timestamp" ->
           <<"t", "i", "m", "e", "s", "t", "a", "m", "p">>
      [] s = "Delegatecall" ->
           <<"D", "e", "l", "e", "g", "a", "t", "e", "c", "a", "l", "l">>
      [] s = "delegatecall" ->
           <<"d", "e", "l", "e", "g", "a", "t", "e", "c", "a", "l", "l">>
      [] s = "proxy" ->
           <<"p", "r", "o", "x", "y">>
      [] s = "Signature" ->
           <<"S", "i", "g", "n", "a", "t", "u", "r", "e">>
      [] s = "signature" ->
           <<"s", "i", "g", "n", "a", "t", "u", "r", "e">>
      [] s = "replay" ->
           <<"r", "e", "p", "l", "a", "y">>
      [] s = "Balance Accounting" ->
           <<"B", "a", "l", "a", "n", "c", "e", " ", "A", "c", "c", "o", "u", "n", "t", "i", "n", "g">>
      [] s = "balance accounting" ->
           <<"b", "a", "l", "a", "n", "c", "e", " ", "a", "c", "c", "o", "u", "n", "t", "i", "n", "g">>
      [] s = "state sync" ->
           <<"s", "t", "a", "t", "e", " ", "s", "y", "n", "c">>
      [] s = "double claim" ->
           <<"d", "o", "u", "b", "l", "e", " ", "c", "l", "a", "i", "m">>
      [] s = "incorrect accounting" ->
           <<"i", "n", "c", "o", "r", "r", "e", "c", "t", " ", "a", "c", "c", "o", "u", "n", "t", "i", "n", "g">>
      [] s = "claim accounting" ->
           <<"c", "l", "a", "i", "m", " ", "a", "c", "c", "o", "u", "n", "t", "i", "n", "g">>
      [] s = "reward accounting" ->
           <<"r", "e", "w", "a", "r", "d", " ", "a", "c", "c", "o", "u", "n", "t", "i", "n", "g">>
      [] s = "balance desync" ->
           <<"b", "a", "l", "a", "n", "c", "e", " ", "d", "e", "s", "y", "n", "c">>
      [] s = "share accounting" ->
           <<"s", "h", "a", "r", "e", " ", "a", "c", "c", "o", "u", "n", "t", "i", "n", "g">>
      [] s = "asset accounting" ->
           <<"a", "s", "s", "e", "t", " ", "a", "c", "c", "o", "u", "n", "t", "i", "n", "g">>
      [] s = "vault accounting" ->
           <<"v", "a", "u", "l", "t", " ", "a", "c", "c", "o", "u", "n", "t", "i", "n", "g">>
      [] s = "ERC20" ->
           <<"E", "R", "C", "2", "0">>
      [] s = "ERC721" ->
           <<"E", "R", "C", "7", "2", "1">>
      [] s = "ERC1155" ->
           <<"E", "R", "C", "1", "1", "5", "5">>
      [] s = "ERC4626" ->
           <<"E", "R", "C", "4", "6", "2", "6">>
      [] s = "Swap" ->
           <<"S", "w", "a", "p">>
      [] s = "my" ->
           <<"m", "y">>
      [] s = "fees" ->
           <<"f", "e", "e", "s">>
      [] s = "erc4626" ->
           <<"e", "r", "c", "4", "6", "2", "6">>
      [] s = "aave" ->
           <<"a", "a", "v", "e">>
      [] s = "uniswap" ->
           <<"u", "n", "i", "s", "w", "a", "p">>
      [] s = "stake" ->
           <<"s", "t", "a", "k", "e">>
      [] s = "cross-chain" ->
           <<"c", "r", "o", "s", "s", "-", "c", "h", "a", "i", "n">>
      [] s = "function foo() external" ->
           <<"f", "u", "n", "c", "t", "i", "o", "n", " ", "f", "o", "o", "(", ")", " ", "e", "x", "t", "e", "r", "n", "a", "l">>
      [] s = "contract Token {" ->
           <<"c", "o", "n", "t", "r", "a", "c", "t", " ", "T", "o", "k", "e", "n", " ", "{">>
      [] s = "modifier onlyOwner() {" ->
           <<"m", "o", "d", "i", "f", "i", "e", "r", " ", "o", "n", "l", "y", "O", "w", "n", "e", "r", "(", ")", " ", "{">>
      [] s = "require(msg.sender == vault, 'Ownable')" ->
           <<"r", "e", "q", "u", "i", "r", "e", "(", "m", "s", "g", ".", "s", "e", "n", "d", "e", "r", " ", "=", "=", " ", "v", "a", "u", "l", "t", ",", " ", "'", "O", "w", "n", "a", "b", "l", "e", "'", ")">>
      [] s = "block.timestamp" ->
           <<"b", "l", "o", "c", "k", ".", "t", "i", "m", "e", "s", "t", "a", "m", "p">>
      [] s = "to.send(1)" ->
           <<"t", "o", ".", "s", "e", "n", "d", "(", "1", ")">>
      [] s = "pool.flashLoan(1)" ->
           <<"p", "o", "o", "l", ".", "f", "l", "a", "s", "h", "L", "o", "a", "n", "(", "1", ")">>
      [] s = "approve(" ->
           <<"a", "p", "p", "r", "o", "v", "e", "(">>
      [] s = "balanceOfBatch" ->
           <<"b", "a", "l", "a", "n", "c", "e", "O", "f", "B", "a", "t", "c", "h">>
      [] s = "ownerOf" ->
           <<"o", "w", "n", "e", "r", "O", "f">>
      [] s = "maxDeposit" ->
           <<"m", "a", "x", "D", "e", "p", "o", "s", "i", "t">>
      [] s = "previewMint" ->
           <<"p", "r", "e", "v", "i", "e", "w", "M", "i", "n", "t">>
      [] s = "x = 1" ->
           <<"x", " ", "=", " ", "1">>
      [] s = "import {IERC20} from './IERC20.sol';" ->
           <<"i", "m", "p", "o", "r", "t", " ", "{", "I", "E", "R", "C", "2", "0", "}", " ", "f", "r", "o", "m", " ", "'", ".", "/", "I", "E", "R", "C", "2", "0", ".", "s", "o", "l", "'", ";">>
      [] s = "  uint256 public total;" ->
           <<" ", " ", "u", "i", "n", "t", "2", "5", "6", " ", "p", "u", "b", "l", "i", "c", " ", "t", "o", "t", "a", "l", ";">>
      [] s = "abi.encode(x)" ->
           <<"a", "b", "i", ".", "e", "n", "c", "o", "d", "e", "(", "x", ")">>
      [] s = "foo" ->
           <<"f", "o", "o">>
      [] s = "Missing access control on foo" ->
           <<"M", "i", "s", "s", "i", "n", "g", " ", "a", "c", "c", "e", "s", "s", " ", "c", "o", "n", "t", "r", "o", "l", " ", "o", "n", " ", "f", "o", "o">>
      [] s = "missing-access-control" ->
           <<"m", "i", "s", "s", "i", "n", "g", "-", "a", "c", "c", "e", "s", "s", "-", "c", "o", "n", "t", "r", "o", "l">>
      [] s = "HIGH" ->
           <<"H", "I", "G", "H">>
      [] s = "foo lacks onlyOwner" ->
           <<"f", "o", "o", " ", "l", "a", "c", "k", "s", " ", "o", "n", "l", "y", "O", "w", "n", "e", "r">>
      [] s = "Flash loan drains vault" ->
           <<"F", "l", "a", "s", "h", " ", "l", "o", "a", "n", " ", "d", "r", "a", "i", "n", "s", " ", "v", "a", "u", "l", "t">>
      [] s = "flash-loan-drain" ->
           <<"f", "l", "a", "s", "h", "-", "l", "o", "a", "n", "-", "d", "r", "a", "i", "n">>
      [] s = "MEDIUM" ->
           <<"M", "E", "D", "I", "U", "M">>
      [] s = "price can be moved" ->
           <<"p", "r", "i", "c", "e", " ", "c", "a", "n", " ", "b", "e", " ", "m", "o", "v", "e", "d">>
      [] s = "LOW" ->
           <<"L", "O", "W">>
      [] s = "Stale timestamp" ->
           <<"S", "t", "a", "l", "e", " ", "t", "i", "m", "e", "s", "t", "a", "m", "p">>
      [] s = "Double claim" ->
           <<"D", "o", "u", "b", "l", "e", " ", "c", "l", "a", "i", "m">>
      [] s = "double-claim" ->
           <<"d", "o", "u", "b", "l", "e", "-", "c", "l", "a", "i", "m">>
      [] s = "high" ->
           <<"h", "i", "g", "h">>
      [] s = "Balances" ->
           <<"B", "a", "l", "a", "n", "c", "e", "s">>
      [] s = "Accounting" ->
           <<"A", "c", "c", "o", "u", "n", "t", "i", "n", "g">>
      [] s = "shares are counted twice" ->
           <<"s", "h", "a", "r", "e", "s", " ", "a", "r", "e", " ", "c", "o", "u", "n", "t", "e", "d", " ", "t", "w", "i", "c", "e">>
      [] s = "Stale price" ->
           <<"S", "t", "a", "l", "e", " ", "p", "r", "i", "c", "e">>
      [] s = "stale-price" ->
           <<"s", "t", "a", "l", "e", "-", "p", "r", "i", "c", "e">>
      [] s = "Stale price feed" ->
           <<"S", "t", "a", "l", "e", " ", "p", "r", "i", "c", "e", " ", "f", "e", "e", "d">>
      [] s = "stale-price-feed" ->
           <<"s", "t", "a", "l", "e", "-", "p", "r", "i", "c", "e", "-", "f", "e", "e", "d">>
      [] s = "Unchecked return value" ->
           <<"U", "n", "c", "h", "e", "c", "k", "e", "d", " ", "r", "e", "t", "u", "r", "n", " ", "v", "a", "l", "u", "e">>
      [] s = "unchecked-return-value" ->
           <<"u", "n", "c", "h", "e", "c", "k", "e", "d", "-", "r", "e", "t", "u", "r", "n", "-", "v", "a", "l", "u", "e">>
      [] s = "foo can be front-run" ->
           <<"f", "o", "o", " ", "c", "a", "n", " ", "b", "e", " ", "f", "r", "o", "n", "t", "-", "r", "u", "n">>
      [] s = "foo-front-run" ->
           <<"f", "o", "o", "-", "f", "r", "o", "n", "t", "-", "r", "u", "n">>
      [] s = "_balances" ->
           <<"_", "b", "a", "l", "a", "n", "c", "e", "s">>
      [] s = "onlyOwner" ->
           <<"o", "n", "l", "y", "O", "w", "n", "e", "r">>
      [] s = "double" ->
           <<"d", "o", "u", "b", "l", "e">>
      [] s = "share" ->
           <<"s", "h", "a", "r", "e">>
      [] s = "totalassets" ->
           <<"t", "o", "t", "a", "l", "a", "s", "s", "e", "t", "s">>
      [] s = "totalsupply" ->
           <<"t", "o", "t", "a", "l", "s", "u", "p", "p", "l", "y">>
      [] s = "balance" ->
           <<"b", "a", "l", "a", "n", "c", "e">>
      [] s = "balances" ->
           <<"b", "a", "l", "a", "n", "c", "e", "s">>
      [] s = " " ->
           <<" ">>
      [] s = " vulnerability" ->
           <<" ", "v", "u", "l", "n", "e", "r", "a", "b", "i", "l", "i", "t", "y">>
      [] s = " exploit" ->
           <<" ", "e", "x", "p", "l", "o", "i", "t">>
      [] s = "selectedFunction" ->
           <<"s", "e", "l", "e", "c", "t", "e", "d", "F", "u", "n", "c", "t", "i", "o", "n">>

_PROTOCOL_SEARCH_MAP ==
    [DEX |-> "amm",
     Vault |-> "vault",
     Lending |-> "lending",
     Staking |-> "staking",
     Bridge |-> "bridge",
     Oracle |-> "oracle",
     NFT |-> "nft"]

protocol_map ==
    <<[key |-> "vault", proto |-> "Vault"],
      [key |-> "erc4626", proto |-> "Vault"],
      [key |-> "lending", proto |-> "Lending"],
      [key |-> "borrow", proto |-> "Lending"],
      [key |-> "aave", proto |-> "Lending"],
      [key |-> "dex", proto |-> "DEX"],
      [key |-> "swap", proto |-> "DEX"],
      [key |-> "amm", proto |-> "DEX"],
      [key |-> "uniswap", proto |-> "DEX"],
      [key |-> "staking", proto |-> "Staking"],
      [key |-> "stake", proto |-> "Staking"],
      [key |-> "bridge", proto |-> "Bridge"],
      [key |-> "cross-chain", proto |-> "Bridge"],
      [key |-> "oracle", proto |-> "Oracle"],
      [key |-> "price", proto |-> "Oracle"]>>

\* The findings the corpus can return: a Finding's title, slug, tags,
\* content (spelled out) and impact.
Corpus ==
    {[title |-> "Missing access control on foo", slug |-> "missing-access-control",
      tags |-> <<"Access Control">>,
      content |-> Chars("foo lacks onlyOwner"),
      impact |-> "HIGH"],
     [title |-> "Flash loan drains vault", slug |-> "flash-loan-drain",
      tags |-> <<"Flash Loan">>,
      content |-> Chars("price can be moved"),
      impact |-> "MEDIUM"],
     [title |-> "Missing access control on foo", slug |-> "",
      tags |-> <<>>,
      content |-> Chars(""),
      impact |-> "LOW"],
     [title |-> "Stale timestamp", slug |-> "missing-access-control",
      tags |-> <<>>,
      content |-> Chars("block.timestamp"),
      impact |-> "MEDIUM"]}

(***************************************************************************)
(* smart_search.py: SmartSearch.search_for_code                            *)
(*                                                                         *)
(* The hint is the text " ".join(user_context): words without whitespace,  *)
(* one space between them, so that hint.split() gives the words back.      *)
(***************************************************************************)
HintString(hint) == str_join(<<" ">>, [i \in DOMAIN hint |-> Chars(hint[i])])

\* The context after the hint has been applied: the first key of
\* protocol_map the lower-cased hint contains sets the protocol type, and
\* the first 3 words longer than 2 characters join the keywords.
_apply_user_context(c, hint) ==
    LET hint_lower == str_lower(HintString(hint))
        hits == SelectSeq(protocol_map,
                          LAMBDA e : str_in(Chars(e.key), hint_lower))
        extra == Take(SelectSeq(hint, LAMBDA w : Len(Chars(w)) > 2), 3)
    IN [c EXCEPT !.protocol_type = IF hits # <<>> THEN Head(hits).proto ELSE @,
                 !.suggested_keywords = @ \o extra]

\* The terms of the keyword string, before the fallback.
SearchTerms(c) ==
    LET terms == (IF c.function_type # "" THEN <<Chars(c.function_type)>> ELSE <<>>)
                 \o (IF c.protocol_type # ""
                     THEN <<Chars(IF c.protocol_type \in DOMAIN _PROTOCOL_SEARCH_MAP
                                  THEN _PROTOCOL_SEARCH_MAP[c.protocol_type]
                                  ELSE Lower(c.protocol_type))>>
                     ELSE <<>>)
    IN IF c.risk_patterns # <<>> /\ Len(terms) < 3
       THEN Append(terms, str_lower(Chars(c.risk_patterns[1])))
       ELSE terms

\* Variant: no fallback to the suggested keywords.
SearchKeywords_no_fallback(c) ==
    str_join(<<" ">>, Take(SearchTerms(c), 3))

\* The keyword string search_for_code passes to the client.
SearchKeywords(c) ==
    LET terms == IF SearchTerms(c) = <<>> /\ c.suggested_keywords # <<>>
                 THEN Take([i \in DOMAIN c.suggested_keywords |->
                               Chars(c.suggested_keywords[i])], 2)
                 ELSE SearchTerms(c)
    IN str_join(<<" ">>, Take(terms, 3))

\* What one search can return: no finding, or one of the corpus.
SearchResults == {<<>>} \cup {<<f>> : f \in Corpus}

(***************************************************************************)
(* SpecSearch: one call of search_for_code.  The call analyzes the code,   *)
(* applies the hint and sends one search; then the search returns a result *)
(* or raises, and the error leaves the call.                               *)
(***************************************************************************)
MaxSearchCodeLen == 2
MaxHintLen == 2

SearchWords ==
    {"require(msg.sender == vault, 'Ownable')", "pool.flashLoan(1)",
     "maxDeposit"}
HintWords == {"Swap", "vault", "my", "fees"}

InitSearch ==
    /\ pc = "input"
    /\ flow = "search_for_code"
    /\ code \in SeqUpTo(SearchWords, MaxSearchCodeLen)
    /\ user_context \in SeqUpTo(HintWords, MaxHintLen)
    /\ info = <<>>
    /\ ctx = CodeContext
    /\ surrounding_code = <<>> /\ sel_name = <<>> /\ unique_queries = <<>>
    /\ sent = <<>> /\ scored = <<>> /\ findings = <<>>
    /\ NormalizeIdle /\ HtmlIdle /\ ReplyIdle /\ ServerIdle

SearchForCodeCall ==
    /\ pc = "input" /\ flow = "search_for_code"
    /\ \E c \in analyze(code) :
          LET applied == IF user_context # <<>>
                         THEN _apply_user_context(c, user_context) ELSE c
          IN /\ ctx' = applied
             /\ sent' = <<SearchKeywords(applied)>>
    /\ pc' = "searching"
    /\ UNCHANGED <<code, info, flow, user_context, surrounding_code, sel_name,
                   unique_queries, scored, findings, normalizeVars, htmlVars, replyVars,
                   serverVars>>

SearchForCodeReturn ==
    /\ pc = "searching" /\ flow = "search_for_code"
    /\ findings' \in SearchResults
    /\ pc' = "returned"
    /\ UNCHANGED <<codeVars, flow, user_context, surrounding_code, sel_name,
                   unique_queries, sent, scored, normalizeVars, htmlVars, replyVars,
                   serverVars>>

SearchForCodeRaises ==
    /\ pc = "searching" /\ flow = "search_for_code"
    /\ pc' = "raised"
    /\ UNCHANGED <<codeVars, flowVars, normalizeVars, htmlVars>>

NextSearch == SearchForCodeCall \/ SearchForCodeReturn \/ SearchForCodeRaises

SpecSearch == InitSearch /\ [][NextSearch]_vars

\* A CodeContext has been handed to a caller: analyze has returned, or
\* search_for_code has.
Handed ==
    \/ flow = "" /\ pc = "analyzed"
    \/ flow = "search_for_code" /\ pc = "returned"

\* The calls of the code on an object outside the denylist, in source order.
CountedCalls ==
    SelectSeq(finditer(external_call_re, code),
              LAMBDA call : call[1] \notin {"msg", "block", "tx", "abi", "require", "assert"})

\* C14: every CodeContext handed to a caller, by analyze and by
\* search_for_code after the hint has been applied, has at most 10
\* external calls, in source order and none on a denylisted object, at most
\* 5 distinct state changes, at most 3 suggested tags and at most 5
\* suggested keywords.
C14_ListCaps ==
    Handed =>
        /\ Len(ctx.external_calls) <= 10
        /\ ctx.external_calls = SubSeq(CountedCalls, 1, Len(ctx.external_calls))
        /\ Len(ctx.state_changes) <= 5
        /\ Distinct(ctx.state_changes)
        /\ Len(ctx.suggested_tags) <= 3
        /\ Len(ctx.suggested_keywords) <= 5

\* search_for_code has sent its search.
Searched == flow = "search_for_code" /\ pc \in {"searching", "returned", "raised"}

\* The function type, the search term of the protocol type and the
\* lower-cased first risk tag of the context, those that are present.
PresentTerms ==
    SelectSeq(<<Chars(ctx.function_type),
                IF ctx.protocol_type = "" THEN <<>>
                ELSE Chars(_PROTOCOL_SEARCH_MAP[ctx.protocol_type]),
                IF ctx.risk_patterns = <<>> THEN <<>>
                ELSE str_lower(Chars(Head(ctx.risk_patterns)))>>,
              LAMBDA t : t # <<>>)

\* C15: search_for_code issues exactly one findings search; its keyword
\* string is the space-joined list of the function type, the search term
\* mapped from the protocol type and the lower-cased first risk tag, those
\* that are present; only when all three are absent it is the first 2
\* suggested keywords, and it is empty when there are none.
C15_OneSearchWithTerms ==
    Searched =>
        /\ Len(sent) = 1
        /\ Len(PresentTerms) <= 3
        /\ sent[1] =
              IF PresentTerms # <<>> THEN str_join(<<" ">>, PresentTerms)
              ELSE str_join(<<" ">>,
                            [i \in 1 .. Min(2, Len(ctx.suggested_keywords)) |->
                                Chars(ctx.suggested_keywords[i])])

\* Nothing is known of the code and the hint names no protocol: the search
\* is made with the first two words of the hint, "fees fees".
C15_Witness ==
    /\ flow = "search_for_code" /\ pc = "returned"
    /\ ctx.function_type = "" /\ ctx.protocol_type = "" /\ ctx.risk_patterns = <<>>
    /\ Len(ctx.suggested_keywords) = 2
    /\ sent = <<Chars("fees") \o <<" ">> \o Chars("fees")>>

\* Further findings for the score: one whose tags hold a selection name
\* and whose impact is in lower case, one whose content passes 1200
\* characters, the word claim across character 1200.
ScoreFindings ==
    Corpus \cup
    {[title |-> "Double claim", slug |-> "double-claim",
      tags |-> <<"Balances", "Accounting">>,
      content |-> Chars("shares are counted twice"),
      impact |-> "high"],
     [title |-> "Stale price", slug |-> "stale-price",
      tags |-> <<>>,
      content |-> [i \in 1 .. 1196 |-> "x"] \o Chars("claim"),
      impact |-> "MEDIUM"]}

ScoreNames ==
    {Chars(""), Chars("foo"), Chars("Balances"), Chars("_balances"), Chars("onlyOwner")}

(***************************************************************************)
(* server.py: _pitfall_relevance_score                                     *)
(***************************************************************************)
CONTENT_LIMIT == 1200

ACCOUNTING_TOKENS ==
    {"accounting", "claim", "double", "share", "totalassets", "totalsupply",
     "rounding"}
BALANCE_NAMES == {"balance", "balances", "_balances"}

\* title, joined tags and the head of the content, lower-cased and joined
\* with spaces.
Haystack(f) ==
    LET title == str_lower(Chars(f.title))
        content == str_lower(f.content)
        tags == str_lower(str_join(<<" ">>, [i \in DOMAIN f.tags |-> Chars(f.tags[i])]))
    IN str_join(<<" ">>, <<title, tags, Take(content, CONTENT_LIMIT)>>)

\* The score of finding f for the selection name and the risk_patterns of
\* the context.
_pitfall_relevance_score(f, name, risk_patterns) ==
    LET title == str_lower(Chars(f.title))
        tags == str_lower(str_join(<<" ">>, [i \in DOMAIN f.tags |-> Chars(f.tags[i])]))
        haystack == Haystack(f)
        sel == str_lower(name)
        s1 == IF name # <<>> /\ str_in(sel, title) THEN 80 ELSE 0
        s2 == IF name # <<>> /\ str_in(sel, tags) THEN s1 + 50 ELSE s1
        s3 == IF name # <<>> /\ str_in(sel, haystack) THEN s2 + 30 ELSE s2
        s4 == IF /\ name # <<>>
                 /\ sel \in {Chars(b) : b \in BALANCE_NAMES}
                 /\ \E token \in ACCOUNTING_TOKENS : str_in(Chars(token), haystack)
              THEN s3 + 35 ELSE s3
        risks == Take(risk_patterns, 3)
        s5 == s4 + 20 * Cardinality({i \in DOMAIN risks :
                                       str_in(str_lower(Chars(risks[i])), haystack)})
        sev == str_upper(Chars(f.impact))
    IN IF sev = Chars("HIGH") THEN s5 + 8
       ELSE IF sev = Chars("MEDIUM") THEN s5 + 4
       ELSE s5

(***************************************************************************)
(* SpecScore: one call of _pitfall_relevance_score, on a finding, a        *)
(* selection name and a context whose risk_patterns is a list analyze can  *)
(* return: the tags of any matching rows of the risk table, in row order.  *)
(***************************************************************************)
ScoreTags == {"Flash Loan", "Access Control", "Timestamp"}

\* The row numbers of a set of rows, ascending.
RowsOf(S) ==
    SelectSeq([i \in 1 .. Len(RISK_PATTERNS) |-> i], LAMBDA i : i \in S)

ScoreRisks ==
    {[k \in DOMAIN RowsOf(S) |-> RISK_PATTERNS[RowsOf(S)[k]].tag] :
        S \in SUBSET {i \in DOMAIN RISK_PATTERNS : RISK_PATTERNS[i].tag \in ScoreTags}}

InitScore ==
    /\ pc = "input"
    /\ flow = "score"
    /\ \E f \in ScoreFindings : findings = <<f>>
    /\ sel_name \in ScoreNames
    /\ \E r \in ScoreRisks : ctx = [CodeContext EXCEPT !.risk_patterns = r]
    /\ code = <<>> /\ info = <<>>
    /\ user_context = <<>> /\ surrounding_code = <<>> /\ unique_queries = <<>>
    /\ sent = <<>> /\ scored = <<>>
    /\ NormalizeIdle /\ HtmlIdle /\ ReplyIdle /\ ServerIdle

ScoreCall ==
    /\ pc = "input" /\ flow = "score"
    /\ scored' = <<<<_pitfall_relevance_score(findings[1], sel_name, ctx.risk_patterns),
                     findings[1]>>>>
    /\ pc' = "scored"
    /\ UNCHANGED <<codeVars, flow, user_context, surrounding_code, sel_name,
                   unique_queries, sent, findings, normalizeVars, htmlVars, replyVars,
                   serverVars>>

NextScore == ScoreCall

SpecScore == InitScore /\ [][NextScore]_vars

\* The terms of the score as the claim lists them, for the finding, the
\* selection name and the context of the call.
ClaimedScore ==
    LET f == findings[1]
        title == str_lower(Chars(f.title))
        tags == str_lower(str_join(<<" ">>, [i \in DOMAIN f.tags |-> Chars(f.tags[i])]))
        haystack == title \o <<" ">> \o tags \o <<" ">>
                      \o SubSeq(str_lower(f.content), 1, Min(1200, Len(f.content)))
        sel == str_lower(sel_name)
        first3 == {ctx.risk_patterns[i] : i \in 1 .. Min(3, Len(ctx.risk_patterns))}
        sev == str_upper(Chars(f.impact))
    IN (IF sel_name # <<>>
        THEN (IF str_in(sel, title) THEN 80 ELSE 0)
             + (IF str_in(sel, tags) THEN 50 ELSE 0)
             + (IF str_in(sel, haystack) THEN 30 ELSE 0)
             + (IF /\ sel \in {Chars("balance"), Chars("balances"), Chars("_balances")}
                   /\ \E token \in ACCOUNTING_TOKENS : str_in(Chars(token), haystack)
                THEN 35 ELSE 0)
        ELSE 0)
       + 20 * Cardinality({tag \in first3 : str_in(str_lower(Chars(tag)), haystack)})
       + (IF sev = Chars("HIGH") THEN 8 ELSE IF sev = Chars("MEDIUM") THEN 4 ELSE 0)

\* C18: _pitfall_relevance_score returns the sum of +80 / +50 / +30 for the
\* lower-cased selection name in the title / the joined tags / the haystack,
\* +35 for a balance name with an accounting keyword in the haystack, +20
\* for each matching risk tag among the first 3 of the context, each
\* distinct tag counted once, and +8 / +4 for HIGH / MEDIUM impact; with an
\* empty selection name only the risk and severity terms apply.
C18_ScoreIsSumOfTerms ==
    (flow = "score" /\ pc = "scored") => scored[1][1] = ClaimedScore

(***************************************************************************)
(* The multi-query flows: scout.py generate_report, server.py /pitfall and *)
(* /fix-draft.  Each builds a list of query candidates from the analysis   *)
(* of the code, removes the repetitions, sends the first few queries one   *)
(* after the other, and collects the findings of the results.              *)
(***************************************************************************)
SCOUT_QUERY_CAP == 8
PITFALL_QUERY_CAP == 6
FIX_DRAFT_QUERY_CAP == 5
PITFALL_TOP == 5
FIX_DRAFT_TOP == 3
RAW_SELECTION_LIMIT == 120
DEFAULT_PAGE_SIZE == 20

\* The text of a code given by its lines.
TextOf(lines) == str_join(<<"\n">>, [i \in DOMAIN lines |-> Chars(lines[i])])

\* The strings of a list, spelled out.
CharsOfAll(list) == [i \in DOMAIN list |-> Chars(list[i])]

RECURSIVE SubParen(_)
\* re.sub(r"\(.*", "", s): every "(" goes, with the rest of its line.
SubParen(s) ==
    IF s = <<>> THEN <<>>
    ELSE IF Head(s) = "("
    THEN LET rest == Tail(s)
             eol == IF \E i \in DOMAIN rest : rest[i] = "\n"
                    THEN CHOOSE i \in DOMAIN rest :
                            rest[i] = "\n" /\ \A j \in 1 .. i - 1 : rest[j] # "\n"
                    ELSE Len(rest) + 1
         IN SubParen(SubSeq(rest, eol, Len(rest)))
    ELSE <<Head(s)>> \o SubParen(Tail(s))

\* req.selection.strip()
RawSelection(selection) == str_strip(TextOf(selection))

\* The name taken from the selection: the last word of what precedes the
\* parentheses, without leading underscores.
SelName(selection) ==
    LET stem == str_strip(SubParen(RawSelection(selection)))
        words == str_split(stem)
        last == IF words # <<>> THEN words[Len(words)] ELSE stem
    IN str_lstrip(last, {"_"})

\* scout.py: search_queries.
ScoutCandidates(i, c) ==
    CharsOfAll(c.risk_patterns)
        \o (IF c.function_type # ""
            THEN <<Chars(c.function_type) \o Chars(" vulnerability")>> ELSE <<>>)
        \o (IF c.protocol_type # ""
            THEN <<Chars(c.protocol_type) \o Chars(" exploit")>> ELSE <<>>)
        \o [k \in DOMAIN i.ercs_detected |->
               Chars(i.ercs_detected[k]) \o Chars(" vulnerability")]

\* /pitfall: query_candidates.
PitfallCandidates(c, name, raw) ==
    (IF name # <<>> THEN <<name, name \o Chars(" vulnerability")>> ELSE <<>>)
        \o (IF c.function_name # "" /\ str_lower(Chars(c.function_name)) # str_lower(name)
            THEN <<Chars(c.function_name)>> ELSE <<>>)
        \o (IF c.function_type # "" THEN <<Chars(c.function_type)>> ELSE <<>>)
        \o CharsOfAll(Take(c.risk_patterns, 2))
        \o CharsOfAll(Take(c.suggested_keywords, 3))
        \o (IF raw # <<>> /\ raw # name
            THEN <<Take(raw, RAW_SELECTION_LIMIT)>> ELSE <<>>)

\* /fix-draft: query_candidates, before the repetitions are removed.
FixDraftCandidates(c, name) ==
    (IF name # <<>> THEN <<name, name \o Chars(" vulnerability")>> ELSE <<>>)
        \o (IF c.function_type # "" THEN <<Chars(c.function_type)>> ELSE <<>>)
        \o CharsOfAll(Take(c.risk_patterns, 2))
        \o CharsOfAll(Take(c.suggested_keywords, 2))

RECURSIVE UniqueLower(_)
\* scout.py and /pitfall: a query is kept when no earlier one has the same
\* lower-cased text.
UniqueLower(qs) ==
    IF qs = <<>> THEN <<>>
    ELSE LET front == SubSeq(qs, 1, Len(qs) - 1)
             q == qs[Len(qs)]
         IN IF \E j \in DOMAIN front : str_lower(front[j]) = str_lower(q)
            THEN UniqueLower(front)
            ELSE Append(UniqueLower(front), q)

\* /pitfall: the candidates are stripped, the empty ones skipped.
PitfallUnique(qs) ==
    UniqueLower(SelectSeq([i \in DOMAIN qs |-> str_strip(qs[i])],
                          LAMBDA q : q # <<>>))

RECURSIVE FixDraftUnique(_)
\* /fix-draft: a query is kept when it is not empty and no earlier candidate
\* is the same string.
FixDraftUnique(qs) ==
    IF qs = <<>> THEN <<>>
    ELSE LET front == SubSeq(qs, 1, Len(qs) - 1)
             q == qs[Len(qs)]
         IN IF q = <<>> \/ \E j \in DOMAIN front : front[j] = q
            THEN FixDraftUnique(front)
            ELSE Append(FixDraftUnique(front), q)

RECURSIVE AppendMissing(_, _)
\* The entries of more that the list does not hold join it, in order.
AppendMissing(list, more) ==
    IF more = <<>> THEN list
    ELSE AppendMissing(IF Head(more) \in Range(list) THEN list
                       ELSE Append(list, Head(more)), Tail(more))

\* Variant: the surrounding code's name and risk entries come first.
PitfallContext_surrounding_wins(sel_ctx, full_ctx) ==
    [sel_ctx EXCEPT
        !.function_name = IF full_ctx.function_name # "" THEN full_ctx.function_name ELSE @,
        !.protocol_type = IF @ = "" THEN full_ctx.protocol_type ELSE @,
        !.risk_patterns = AppendMissing(full_ctx.risk_patterns, @)]

\* The context of /pitfall: the selection's, with the function name and the
\* protocol type of the surrounding code where its own are empty, and the
\* surrounding code's risk entries it does not have.
PitfallContext(sel_ctx, full_ctx) ==
    [sel_ctx EXCEPT
        !.function_name = IF @ = "" THEN full_ctx.function_name ELSE @,
        !.protocol_type = IF @ = "" THEN full_ctx.protocol_type ELSE @,
        !.risk_patterns = AppendMissing(@, full_ctx.risk_patterns)]

\* The context of /fix-draft: the same, but the protocol type is not merged.
FixDraftContext(sel_ctx, full_ctx) ==
    [sel_ctx EXCEPT
        !.function_name = IF @ = "" THEN full_ctx.function_name ELSE @,
        !.risk_patterns = AppendMissing(@, full_ctx.risk_patterns)]

\* The number of queries a flow sends at most.
QueryCap(handler) ==
    CASE handler = "scout" -> SCOUT_QUERY_CAP
      [] handler = "pitfall" -> PITFALL_QUERY_CAP
      [] handler = "fix_draft" -> FIX_DRAFT_QUERY_CAP

\* The queries a flow is going to send.
ToSend(handler, unique) == Take(unique, QueryCap(handler))

\* slug-or-title.
KeyOf(f) == IF f.slug # "" THEN f.slug ELSE f.title

RECURSIVE AddByTitle(_, _)
\* scout.py: the findings of a result whose title was not seen join
\* all_findings.
AddByTitle(all_findings, result) ==
    IF result = <<>> THEN all_findings
    ELSE AddByTitle(IF \E k \in DOMAIN all_findings :
                           all_findings[k].title = Head(result).title
                    THEN all_findings
                    ELSE Append(all_findings, Head(result)), Tail(result))

RECURSIVE AddScored(_, _, _, _)
\* /pitfall, /fix-draft: the findings of a result whose key was not seen are
\* scored and join the list.
AddScored(list, result, name, c) ==
    IF result = <<>> THEN list
    ELSE AddScored(IF \E k \in DOMAIN list : KeyOf(list[k][2]) = KeyOf(Head(result))
                   THEN list
                   ELSE Append(list, <<_pitfall_relevance_score(Head(result), name,
                                                                c.risk_patterns),
                                       Head(result)>>),
                   Tail(result), name, c)

RECURSIVE SortByScore_unstable(_)
\* Variant: a pair goes before the pairs of the same score.
SortByScore_unstable(list) ==
    IF list = <<>> THEN <<>>
    ELSE LET front == SortByScore_unstable(SubSeq(list, 1, Len(list) - 1))
             x == list[Len(list)]
             n == Cardinality({k \in DOMAIN front : front[k][1] > x[1]})
         IN SubSeq(front, 1, n) \o <<x>> \o SubSeq(front, n + 1, Len(front))

RECURSIVE SortByScore(_)
\* scored.sort(key=score, reverse=True): by falling score, the pairs of the
\* same score in their order in the list.
SortByScore(list) ==
    IF list = <<>> THEN <<>>
    ELSE LET front == SortByScore(SubSeq(list, 1, Len(list) - 1))
             x == list[Len(list)]
             n == Cardinality({k \in DOMAIN front : front[k][1] >= x[1]})
         IN SubSeq(front, 1, n) \o <<x>> \o SubSeq(front, n + 1, Len(front))

\* The findings a ranking flow selects: the first of the sorted list.
TopOf(handler) == IF handler = "pitfall" THEN PITFALL_TOP ELSE FIX_DRAFT_TOP
Selected(handler, list) ==
    LET sorted == SortByScore(list)
    IN [k \in 1 .. Min(TopOf(handler), Len(sorted)) |-> sorted[k][2]]

\* The findings the searches of a ranked request can have returned: six
\* keys, among them equal scores.
RankCorpus ==
    {f \in Corpus : f.title # "Stale timestamp"} \cup
    {[title |-> "Stale price feed", slug |-> "stale-price-feed",
      tags |-> <<>>,
      content |-> Chars(""),
      impact |-> "MEDIUM"],
     [title |-> "Unchecked return value", slug |-> "unchecked-return-value",
      tags |-> <<>>,
      content |-> Chars(""),
      impact |-> "HIGH"],
     [title |-> "foo can be front-run", slug |-> "foo-front-run",
      tags |-> <<>>,
      content |-> Chars(""),
      impact |-> "HIGH"]}

(***************************************************************************)
(* What the flows return.  HTML is a list of tokens as above; a text the   *)
(* LLM returns is what AIProvider.generate hands back, already stripped of *)
(* fences and of outer whitespace.  A finding of the corpus carries its    *)
(* title, slug, tags, content and impact; its firm, protocol and link are  *)
(* empty texts.                                                            *)
(***************************************************************************)
\* An optional value: None, or the value.
None == <<>>
Some(v) == <<v>>

\* The flow raises an error of the given class to its caller.
Raised(kind) == [raised |-> TRUE, value |-> kind]

\* SoloditClient.search, lines 144-148: SoloditAuthError on 401,
\* SoloditRateLimitError on 429, raise_for_status for the other failures.
SearchErrors == {"SoloditAuthError", "SoloditRateLimitError", "HTTPStatusError"}

_DEPTH_MAP == [quick |-> 5, standard |-> 20, deep |-> 50]

\* Variant: the page size of the standard depth, whatever the depth.
PageSize_always_default(d) == DEFAULT_PAGE_SIZE

\* _DEPTH_MAP.get(depth, 20)
PageSize(d) == IF d \in DOMAIN _DEPTH_MAP THEN _DEPTH_MAP[d] ELSE DEFAULT_PAGE_SIZE

\* generate_report, lines 172-182: the matched list, ids F1..Fn.
MatchedOf(fs) ==
    [k \in 1 .. Len(fs) |->
        [id |-> <<FIds[k]>>, title |-> <<fs[k].title>>, firm |-> <<>>,
         protocol |-> <<>>, impact |-> <<fs[k].impact>>]]

\* str.upper() of the impact texts modelled.
ImpactUpper(s) ==
    CASE s = "high" -> "HIGH"
      [] s = "Critical" -> "CRITICAL"
      [] OTHER -> s

\* generate_report, lines 222-227: f.impact.upper() counted per severity.
SeverityCounts(fs) ==
    [sev \in {"HIGH", "MEDIUM", "LOW"} |->
        Cardinality({k \in 1 .. Len(fs) : ImpactUpper(fs[k].impact) = sev})]

\* generate_report, lines 170-236, from the findings and the LLM's text on.
ScoutReport(i, all_findings, page_size, content) ==
    LET page == Take(all_findings, page_size)
    IN [contract_name |-> IF i.name # "" THEN i.name ELSE "Analyzed Contract",
        findings_count |-> Len(page),
        severity_breakdown |-> SeverityCounts(page),
        contract_info |-> i,
        content_html |-> _postprocess_report_html(content, MatchedOf(page)),
        matched_findings |-> MatchedOf(page)]

\* _build_fallback_card: a frame around one item per finding, which shows
\* its escaped title and impact.
_build_fallback_card(c, fs) ==
    <<"<div>Potential issue found in related audit finding(s)">>
    \o Flatten([k \in 1 .. Len(fs) |->
                   <<"<div>">> \o Escape(<<fs[k].title, fs[k].impact>>)
                   \o <<"</div>">>])
    \o <<"</div>">>

\* Variant: no card is built locally.
PitfallResponse_no_fallback(c, fs, card) ==
    [has_pitfall |-> fs # <<>>, analysis |-> c, card_html |-> card,
     findings |-> Take(fs, 3)]

\* /pitfall, lines 346-410, from the ranked findings on.  card is the LLM's
\* text, empty when the call failed.
PitfallResponse(c, fs, card) ==
    [has_pitfall |-> fs # <<>>,
     analysis |-> c,
     card_html |-> IF card = <<>> /\ fs # <<>>
                   THEN _build_fallback_card(c, Take(fs, 3))
                   ELSE card,
     findings |-> Take(fs, 3)]

\* /fix-draft, lines 466-479: the references F1..Fn of the selected findings.
References(fs) ==
    [k \in 1 .. Len(fs) |->
        [id |-> FIds[k], title |-> fs[k].title, impact |-> fs[k].impact]]

\* /fix-draft, lines 513-526: the draft built locally.  The name is an
\* identifier, which html_escape leaves as it is.
FallbackDraft(c, name) ==
    <<"<h3>Risk</h3><h3>Patch Draft</h3><pre><code>// Draft patch for ">>
    \o (IF c.function_name # "" THEN Chars(c.function_name)
        ELSE IF name # <<>> THEN name
        ELSE Chars("selectedFunction"))
    \o <<"</code></pre><h3>Why</h3><h3>References</h3>">>

\* /fix-draft, lines 466-537, from the selected findings on.  draft is the
\* LLM's text, empty when the call failed.
FixDraftResponse(c, name, fs, draft) ==
    LET html1 == IF draft = <<>> THEN FallbackDraft(c, name) ELSE draft
    IN [analysis |-> c,
        draft_html |-> StripStyle(StripStyle(html1, "dq", 1), "sq", 1),
        references |-> References(fs)]

\* dictionary.py: DictionaryResult.
DictionaryResult(result, summary) ==
    [search_result |-> result, ai_summary |-> summary]

NO_FINDINGS_HTML == <<"<div><h2>No findings found</h2></div>">>

\* generate_lesson, lines 121-130.
Sources(fs) ==
    [k \in 1 .. Len(fs) |-> [title |-> fs[k].title, impact |-> fs[k].impact]]

\* generate_lesson, lines 111-117.
EmptyLesson ==
    [finding_count |-> 0, content_html |-> NO_FINDINGS_HTML, quiz |-> <<>>,
     sources |-> <<>>]

\* generate_lesson, lines 152-164: the reply is post-processed, the quiz is
\* parsed from the post-processed text; either step can raise ValueError.
LessonOf(fs, content) ==
    LET content_html == _postprocess_lesson_html(content)
        quiz == IF content_html.raised THEN Raise
                ELSE _parse_quiz(content_html.value)
    IN IF content_html.raised \/ quiz.raised THEN Raised("ValueError")
       ELSE Ok([finding_count |-> Len(fs),
                content_html |-> content_html.value,
                quiz |-> quiz.value,
                sources |-> Sources(fs)])

(***************************************************************************)
(* SpecFlow: one request to generate_report, /pitfall, /fix-draft,         *)
(* generate_lesson or DictionaryModule.search, from its arguments to what  *)
(* it returns or raises.  A handler that analyzes code builds its queries  *)
(* in one step; every search is a step of its own that returns some        *)
(* findings of the corpus or fails; the findings are selected; the last    *)
(* step is the call of the LLM, which returns a text or fails, and what    *)
(* the handler makes of it.                                                *)
(***************************************************************************)
MaxSelectionLen == 1
MaxPage == 2

\* A contract file; generate_report is called on its first lines.
ScoutFile ==
    <<"require(msg.sender == vault, 'Ownable')", "pool.flashLoan(1)",
      "block.timestamp", "ERC721", "ownerOf", "ERC1155", "balanceOfBatch",
      "approve(", "maxDeposit", "previewMint">>
ScoutFiles == {SubSeq(ScoutFile, 1, n) : n \in 0 .. Len(ScoutFile)}

SelectionWords ==
    {"require(msg.sender == vault, 'Ownable')", "pool.flashLoan(1)",
     "function foo() external"}
Selections == SeqUpTo(SelectionWords, MaxSelectionLen)
Surroundings == {<<>>, <<"function foo() external", "block.timestamp">>}

\* What one search can return: up to MaxPage findings of the corpus.
FlowResults == SeqUpTo(Corpus, MaxPage)

\* The fields of the analysis generate_report reads; code_ctx is its local.
ReadByScout(c) ==
    [CodeContext EXCEPT !.function_type = c.function_type,
                        !.protocol_type = c.protocol_type,
                        !.risk_patterns = c.risk_patterns]

\* What the LLM can return: nothing, a text, a text with a style attribute.
AiReplies == {<<>>, <<"txt">>, <<"txt", "ws", "style=", "dq", "txt", "dq">>}

\* A quiz block: data-correct, the options, the explanation, the closing tag.
QuizBlock(tag, options, explanation) ==
    <<tag>> \o Flatten([k \in 1 .. options |-> <<"opt", "txt", "cdiv">>])
    \o (IF explanation # <<>> THEN <<"exp">> \o explanation \o <<"cdiv">> ELSE <<>>)
    \o <<"cdiv">>

\* Lessons the LLM can return: texts without a quiz, quiz blocks whose
\* data-correct counts from zero or from one, with and without a letter hint,
\* two blocks, and a data-correct too long for int().
LessonReplies ==
    AiReplies \cup
    {QuizBlock("Q0", 2, <<>>), QuizBlock("Q2", 3, <<>>), QuizBlock("Q3", 3, <<>>),
     QuizBlock("Q1", 2, <<"answer", ":", "B">>),
     QuizBlock("Q1", 2, <<>>) \o QuizBlock("Q1", 3, <<"txt">>),
     QuizBlock("Qlong", 1, <<>>)}

\* The argument of generate_lesson and of DictionaryModule.search.
Topic == Chars("oracle")

InitFlow ==
    /\ pc = "input"
    /\ flow \in {"scout", "pitfall", "fix_draft", "lesson", "dictionary"}
    /\ CASE flow = "scout" -> code \in ScoutFiles /\ surrounding_code = <<>>
         [] flow \in {"pitfall", "fix_draft"} ->
               code \in Selections /\ surrounding_code \in Surroundings
         [] OTHER -> code = <<>> /\ surrounding_code = <<>>
    /\ info = ContractInfo
    /\ ctx = CodeContext
    /\ user_context = <<>> /\ sel_name = <<>> /\ unique_queries = <<>>
    /\ sent = <<>> /\ scored = <<>> /\ findings = <<>>
    /\ ReplyIdle /\ ServerIdle
    /\ NormalizeIdle /\ HtmlIdle

ScoutStart ==
    /\ pc = "input" /\ flow = "scout"
    /\ \E i \in _parse_contract(code), c \in analyze(code) :
          /\ info' = i
          /\ ctx' = ReadByScout(c)
          /\ unique_queries' = UniqueLower(ScoutCandidates(i, c))
    /\ pc' = "loop"
    /\ UNCHANGED <<code, flow, user_context, surrounding_code, sel_name, sent,
                   scored, findings, replyVars, normalizeVars, htmlVars,
                   serverVars>>

PitfallStart ==
    /\ pc = "input" /\ flow = "pitfall"
    /\ \E sel_ctx \in analyze(code) :
          \E full_ctx \in (IF surrounding_code # <<>>
                           THEN analyze(surrounding_code) ELSE {sel_ctx}) :
             LET c == PitfallContext(sel_ctx, full_ctx)
             IN /\ ctx' = c
                /\ sel_name' = SelName(code)
                /\ unique_queries' =
                      PitfallUnique(PitfallCandidates(c, SelName(code), RawSelection(code)))
    /\ pc' = "loop"
    /\ UNCHANGED <<code, info, flow, user_context, surrounding_code, sent,
                   scored, findings, replyVars, normalizeVars, htmlVars,
                   serverVars>>

FixDraftStart ==
    /\ pc = "input" /\ flow = "fix_draft"
    /\ \E sel_ctx \in analyze(code) :
          \E full_ctx \in (IF surrounding_code # <<>>
                           THEN analyze(surrounding_code) ELSE {sel_ctx}) :
             LET c == FixDraftContext(sel_ctx, full_ctx)
             IN /\ ctx' = c
                /\ sel_name' = SelName(code)
                /\ unique_queries' = FixDraftUnique(FixDraftCandidates(c, SelName(code)))
    /\ pc' = "loop"
    /\ UNCHANGED <<code, info, flow, user_context, surrounding_code, sent,
                   scored, findings, replyVars, normalizeVars, htmlVars,
                   serverVars>>

\* The loop sends its next query; the error of the last one is forgotten.
SendQuery ==
    /\ pc = "loop"
    /\ Len(sent) < Len(ToSend(flow, unique_queries))
    /\ sent' = Append(sent, ToSend(flow, unique_queries)[Len(sent) + 1])
    /\ pc' = "searching"
    /\ failure' = ""
    /\ UNCHANGED <<codeVars, flow, user_context, surrounding_code, sel_name,
                   unique_queries, scored, findings, depth, generated, response, normalizeVars,
                   htmlVars, serverVars>>

\* generate_lesson and DictionaryModule.search send one query, their
\* argument.
SendTopic ==
    /\ pc = "input" /\ flow \in {"lesson", "dictionary"}
    /\ sent' = <<Topic>>
    /\ pc' = "searching"
    /\ UNCHANGED <<codeVars, flow, user_context, surrounding_code, sel_name,
                   unique_queries, scored, findings, replyVars, normalizeVars,
                   htmlVars, serverVars>>

ScoutResult ==
    /\ pc = "searching" /\ flow = "scout"
    /\ \E result \in FlowResults : findings' = AddByTitle(findings, result)
    /\ pc' = "loop"
    /\ UNCHANGED <<codeVars, flow, user_context, surrounding_code, sel_name,
                   unique_queries, sent, scored, replyVars, normalizeVars,
                   htmlVars, serverVars>>

RankedResult ==
    /\ pc = "searching" /\ flow \in {"pitfall", "fix_draft"}
    /\ \E result \in FlowResults : scored' = AddScored(scored, result, sel_name, ctx)
    /\ pc' = "loop"
    /\ UNCHANGED <<codeVars, flow, user_context, surrounding_code, sel_name,
                   unique_queries, sent, findings, replyVars, normalizeVars,
                   htmlVars, serverVars>>

\* Variant: the error of a search ends the request.
SearchFails_aborts ==
    /\ pc = "searching" /\ flow \in {"scout", "pitfall", "fix_draft"}
    /\ \E kind \in SearchErrors : failure' = kind /\ response' = Raised(kind)
    /\ pc' = "raised"
    /\ UNCHANGED <<codeVars, flow, user_context, surrounding_code, sel_name,
                   unique_queries, sent, scored, findings, depth, generated,
                   normalizeVars, htmlVars, serverVars>>

\* The search raises; the handler logs the error (failure) and goes on.
SearchFails ==
    /\ pc = "searching" /\ flow \in {"scout", "pitfall", "fix_draft"}
    /\ \E kind \in SearchErrors : failure' = kind
    /\ pc' = "loop"
    /\ UNCHANGED <<codeVars, flow, user_context, surrounding_code, sel_name,
                   unique_queries, sent, scored, findings, depth, generated,
                   response, normalizeVars, htmlVars, serverVars>>

\* generate_lesson, DictionaryModule.search: the search is not guarded, its
\* error is the caller's.
SearchRaises ==
    /\ pc = "searching" /\ flow \in {"lesson", "dictionary"}
    /\ \E kind \in SearchErrors : failure' = kind /\ response' = Raised(kind)
    /\ pc' = "raised"
    /\ UNCHANGED <<codeVars, flow, user_context, surrounding_code, sel_name,
                   unique_queries, sent, scored, findings, depth, generated,
                   normalizeVars, htmlVars, serverVars>>

\* generate_lesson, lines 104-117: without findings the lesson is returned
\* at once.
LessonResult ==
    /\ pc = "searching" /\ flow = "lesson"
    /\ \E result \in FlowResults :
          /\ findings' = result
          /\ IF result = <<>>
             THEN pc' = "returned" /\ response' = Ok(EmptyLesson)
             ELSE pc' = "collected" /\ UNCHANGED response
    /\ UNCHANGED <<codeVars, flow, user_context, surrounding_code, sel_name,
                   unique_queries, sent, scored, depth, failure, generated,
                   normalizeVars, htmlVars, serverVars>>

\* DictionaryModule.search, lines 68-79: a summary is asked for when the
\* caller wants one and there are findings.
DictionaryResultArrives ==
    /\ pc = "searching" /\ flow = "dictionary"
    /\ \E result \in FlowResults, with_summary \in BOOLEAN :
          /\ findings' = result
          /\ IF with_summary /\ result # <<>>
             THEN pc' = "collected" /\ UNCHANGED response
             ELSE /\ pc' = "returned"
                  /\ response' = Ok(DictionaryResult(result, None))
    /\ UNCHANGED <<codeVars, flow, user_context, surrounding_code, sel_name,
                   unique_queries, sent, scored, depth, failure, generated,
                   normalizeVars, htmlVars, serverVars>>

ScoutCollect ==
    /\ pc = "loop" /\ flow = "scout"
    /\ Len(sent) = Len(ToSend(flow, unique_queries))
    /\ findings' = Take(findings, PageSize(depth))
    /\ pc' = "collected"
    /\ failure' = ""
    /\ UNCHANGED <<codeVars, flow, user_context, surrounding_code, sel_name,
                   unique_queries, sent, scored, depth, generated, response, normalizeVars,
                   htmlVars, serverVars>>

Rank ==
    /\ pc = "loop" /\ flow \in {"pitfall", "fix_draft"}
    /\ Len(sent) = Len(ToSend(flow, unique_queries))
    /\ findings' = Selected(flow, scored)
    /\ pc' = "ranked"
    /\ failure' = ""
    /\ UNCHANGED <<codeVars, flow, user_context, surrounding_code, sel_name,
                   unique_queries, sent, scored, depth, generated, response, normalizeVars,
                   htmlVars, serverVars>>

\* /pitfall, lines 349-355: nothing ranked, nothing generated.
PitfallNoFindings ==
    /\ pc = "ranked" /\ flow = "pitfall" /\ findings = <<>>
    /\ response' = Ok([has_pitfall |-> FALSE, analysis |-> ctx,
                       card_html |-> <<>>, findings |-> <<>>])
    /\ pc' = "returned"
    /\ UNCHANGED <<codeVars, flow, user_context, surrounding_code, sel_name,
                   unique_queries, sent, scored, findings, depth, failure,
                   generated, normalizeVars, htmlVars, serverVars>>

\* Variant: /pitfall calls the LLM also when nothing was ranked.
Generating_without_findings ==
    pc \in {"ranked", "collected"}

\* The handler has its findings and calls the LLM.
Generating ==
    /\ \/ pc = "ranked" /\ flow = "pitfall" /\ findings # <<>>
       \/ pc = "ranked" /\ flow = "fix_draft"
       \/ pc = "collected"

\* What the handler makes of the LLM's text.
ResponseTo(text) ==
    CASE flow = "pitfall" -> Ok(PitfallResponse(ctx, findings, text))
      [] flow = "fix_draft" -> Ok(FixDraftResponse(ctx, sel_name, findings, text))
      [] flow = "dictionary" -> Ok(DictionaryResult(findings, Some(text)))
      [] flow = "scout" -> Ok(ScoutReport(info, findings, PageSize(depth), text))
      [] flow = "lesson" -> LessonOf(findings, text)

\* What the handler makes of an error of the LLM: /pitfall and /fix-draft go
\* on with an empty text, the dictionary with no summary; generate_report
\* and generate_lesson do not guard the call.
ResponseToFailure ==
    CASE flow = "pitfall" -> Ok(PitfallResponse(ctx, findings, <<>>))
      [] flow = "fix_draft" -> Ok(FixDraftResponse(ctx, sel_name, findings, <<>>))
      [] flow = "dictionary" -> Ok(DictionaryResult(findings, None))
      [] OTHER -> Raised("AIError")

Generated ==
    /\ Generating
    /\ \E text \in (IF flow = "lesson" THEN LessonReplies ELSE AiReplies) :
          /\ generated' = Append(generated, Ok(text))
          /\ response' = ResponseTo(text)
    /\ pc' = IF response'.raised THEN "raised" ELSE "returned"
    /\ UNCHANGED <<codeVars, flow, user_context, surrounding_code, sel_name,
                   unique_queries, sent, scored, findings, depth, failure,
                   normalizeVars, htmlVars, serverVars>>

GenerateFails ==
    /\ Generating
    /\ generated' = Append(generated, Raise)
    /\ response' = ResponseToFailure
    /\ pc' = IF response'.raised THEN "raised" ELSE "returned"
    /\ UNCHANGED <<codeVars, flow, user_context, surrounding_code, sel_name,
                   unique_queries, sent, scored, findings, depth, failure,
                   normalizeVars, htmlVars, serverVars>>

NextFlow ==
    \/ ScoutStart \/ PitfallStart \/ FixDraftStart
    \/ SendQuery \/ SendTopic
    \/ ScoutResult \/ RankedResult \/ LessonResult \/ DictionaryResultArrives
    \/ SearchFails \/ SearchRaises
    \/ ScoutCollect \/ Rank
    \/ PitfallNoFindings \/ Generated \/ GenerateFails

SpecFlow == InitFlow /\ [][NextFlow]_vars

\* The candidate queries of the request, rebuilt from what the handler read.
Candidates ==
    CASE flow = "scout" -> ScoutCandidates(info, ctx)
      [] flow = "pitfall" -> PitfallCandidates(ctx, sel_name, RawSelection(code))
      [] flow = "fix_draft" -> FixDraftCandidates(ctx, sel_name)
      [] OTHER -> <<>>

\* Where query q first occurs among the candidates, letter case ignored
\* (0 when it does not occur).
FirstOccurrence(q) ==
    LET at == {i \in 1 .. Len(Candidates) :
                  str_lower(str_strip(Candidates[i])) = str_lower(q)}
    IN IF at = {} THEN 0 ELSE CHOOSE i \in at : \A j \in at : i <= j

\* C16: in generate_report, /pitfall and /fix-draft no two queries sent in
\* one request are equal when letter case is ignored, and the queries are
\* sent in the order of their first occurrence in the candidate list.
C16_QueriesDedupedIgnoringCase ==
    flow \in {"scout", "pitfall", "fix_draft"} =>
        \A i, j \in 1 .. Len(sent) :
            i < j => /\ str_lower(sent[i]) # str_lower(sent[j])
                     /\ 0 < FirstOccurrence(sent[i])
                     /\ FirstOccurrence(sent[i]) < FirstOccurrence(sent[j])

\* The candidates deduplicated with letter case ignored: each non-empty
\* candidate at the place of its first occurrence.
DedupedCandidates ==
    LET first == {i \in 1 .. Len(Candidates) :
                     /\ str_strip(Candidates[i]) # <<>>
                     /\ FirstOccurrence(Candidates[i]) = i}
        nth(k) == CHOOSE i \in first : Cardinality({j \in first : j <= i}) = k
    IN [k \in 1 .. Cardinality(first) |-> str_strip(Candidates[nth(k)])]

ClaimedCap ==
    CASE flow = "scout" -> 8 [] flow = "pitfall" -> 6 [] flow = "fix_draft" -> 5
      [] OTHER -> 0

\* C17: one scout report sends at most 8 searches, one /pitfall request at
\* most 6 and one /fix-draft request at most 5, and the queries sent are
\* the first 8, 6 or 5 of the deduplicated candidate list, in its order;
\* the later candidates are never sent.
C17_FanOutCapped ==
    flow \in {"scout", "pitfall", "fix_draft"} =>
        /\ Len(sent) <= ClaimedCap
        /\ sent = Take(Take(DedupedCandidates, ClaimedCap), Len(sent))
        /\ pc \in {"ranked", "collected"} =>
              sent = Take(DedupedCandidates, ClaimedCap)

(***************************************************************************)
(* SpecRank: the ranking that ends /pitfall and /fix-draft, and the        *)
(* response that follows it, without the searches before.                  *)
(* The request is taken where its search loop has ended: the selection is  *)
(* analyzed, the queries are sent, and scored holds, in discovery order,   *)
(* the scored findings of any results with different keys.                 *)
(***************************************************************************)
RankSelection == <<"function foo() external">>

RECURSIVE Arrangements(_)
\* The lists of different members of S.
Arrangements(S) ==
    {<<>>} \cup UNION {{<<x>> \o a : a \in Arrangements(S \ {x})} : x \in S}

InitRank ==
    /\ pc = "loop"
    /\ flow \in {"pitfall", "fix_draft"}
    /\ code = RankSelection /\ surrounding_code = <<>>
    /\ info = ContractInfo
    /\ \E sel_ctx \in analyze(code) :
          /\ ctx = sel_ctx
          /\ unique_queries =
                IF flow = "pitfall"
                THEN PitfallUnique(PitfallCandidates(sel_ctx, SelName(code), RawSelection(code)))
                ELSE FixDraftUnique(FixDraftCandidates(sel_ctx, SelName(code)))
    /\ sel_name = SelName(code)
    /\ sent = ToSend(flow, unique_queries)
    /\ \E discovered \in Arrangements(RankCorpus) :
          scored = AddScored(<<>>, discovered, sel_name, ctx)
    /\ user_context = <<>> /\ findings = <<>>
    /\ NormalizeIdle /\ HtmlIdle /\ ReplyIdle /\ ServerIdle

NextRank == Rank \/ PitfallNoFindings \/ Generated \/ GenerateFails

SpecRank == InitRank /\ [][NextRank]_vars

Ranked == flow \in {"pitfall", "fix_draft"} /\ pc = "ranked"

\* Where a finding stands in discovery order (0 when it was not discovered).
DiscoveredAt(f) ==
    IF \E i \in DOMAIN scored : scored[i][2] = f
    THEN CHOOSE i \in DOMAIN scored : scored[i][2] = f
    ELSE 0

\* The discovered finding at place i goes before the one at place j: its
\* score is higher, or the scores are equal and it was discovered first.
RanksBefore(i, j) ==
    \/ scored[i][1] > scored[j][1]
    \/ scored[i][1] = scored[j][1] /\ i < j

ClaimedTop == IF flow = "pitfall" THEN 5 ELSE 3

\* C19: in /pitfall and /fix-draft the selected findings are the first 5
\* (pitfall) or 3 (fix-draft) of the discovered findings ordered by
\* non-increasing relevance score, findings of equal score in discovery
\* order; scoring the same findings again with the same selection name and
\* context gives the same scores, hence the same order.
C19_StableRanking ==
    Ranked =>
        /\ Len(findings) = Min(ClaimedTop, Len(scored))
        /\ \A k \in DOMAIN findings : DiscoveredAt(findings[k]) > 0
        /\ \A k, l \in DOMAIN findings :
              k < l => RanksBefore(DiscoveredAt(findings[k]), DiscoveredAt(findings[l]))
        /\ \A k \in DOMAIN findings : \A j \in DOMAIN scored :
              (\A l \in DOMAIN findings : findings[l] # scored[j][2])
                  => RanksBefore(DiscoveredAt(findings[k]), j)
        /\ \A i \in DOMAIN scored :
              scored[i][1] = _pitfall_relevance_score(scored[i][2], sel_name, ctx.risk_patterns)

\* A ranking that had to reorder, to keep a tie in discovery order and to
\* drop findings: a selected finding was discovered after one it precedes,
\* two selected findings have the same score, and more were discovered than
\* are selected.
C19_Witness ==
    /\ Ranked
    /\ Len(scored) > ClaimedTop
    /\ \E k, l \in DOMAIN findings :
          k < l /\ DiscoveredAt(findings[k]) > DiscoveredAt(findings[l])
    /\ \E k, l \in DOMAIN findings :
          /\ k < l
          /\ scored[DiscoveredAt(findings[k])][1] = scored[DiscoveredAt(findings[l])][1]

\* The findings a request has kept so far, in discovery order.
Kept ==
    IF flow = "scout" THEN findings
    ELSE [i \in DOMAIN scored |-> scored[i][2]]

\* The key of the claim: the slug when it is not empty, the title otherwise.
ClaimedKey(f) == IF f.slug = "" THEN f.title ELSE f.slug

\* C20: in generate_report, /pitfall and /fix-draft the findings are
\* deduplicated across queries by slug-or-title before scoring or
\* selection: no two findings kept for one request have the same key.
C20_FindingsDedupedByKey ==
    flow \in {"scout", "pitfall", "fix_draft"} =>
        \A i, j \in DOMAIN Kept :
            i < j => ClaimedKey(Kept[i]) # ClaimedKey(Kept[j])

\* The flows whose searches are guarded one by one.
Guarded == flow \in {"scout", "pitfall", "fix_draft"}

\* list a is the beginning of list b.
StartsWith(b, a) == Len(a) <= Len(b) /\ SubSeq(b, 1, Len(a)) = a

\* A search of generate_report, /pitfall or /fix-draft fails in this step.
SearchFailsHere == Guarded /\ pc = "searching" /\ failure' # ""

\* The failed search adds nothing and the loop goes on.
FailurePassedOver ==
    SearchFailsHere =>
        /\ pc' = "loop"
        /\ UNCHANGED <<findings, scored, sent, response, generated, serverVars>>

\* While the loop runs nothing found is lost, and the loop ends only when
\* every query of the capped list was sent.
LoopKeepsAndCompletes ==
    (Guarded /\ pc \in {"loop", "searching"}) =>
        /\ pc' \in {"loop", "searching"} =>
              StartsWith(findings', findings) /\ StartsWith(scored', scored)
        /\ pc' \notin {"loop", "searching"} => sent = ToSend(flow, unique_queries)
        /\ pc' # "raised"

\* The searches alone never make the request raise: a request of these
\* flows that raised did so at its call of the LLM, all queries sent.
RaisedOnlyByGenerate ==
    (Guarded /\ pc \in {"ranked", "collected", "returned", "raised"}) =>
        /\ sent = ToSend(flow, unique_queries)
        /\ pc = "raised" =>
              generated # <<>> /\ generated[Len(generated)].raised

\* C21: in generate_report, /pitfall and /fix-draft a search that fails
\* adds no finding and ends nothing: the findings kept so far stay, every
\* later query of the capped list is still sent, and the request goes on to
\* its result.
C21_FailedSearchPassedOver ==
    /\ []RaisedOnlyByGenerate
    /\ [][FailurePassedOver /\ LoopKeepsAndCompletes]_vars

\* A search has just failed after an earlier one found something, and
\* queries are left to send.
C21_Witness ==
    /\ Guarded /\ pc = "loop" /\ failure # ""
    /\ (findings # <<>> \/ scored # <<>>)
    /\ Len(sent) < Len(ToSend(flow, unique_queries))

\* The corpus answers a search of this step with 401 or 429.
AuthOrRateLimitHere ==
    /\ pc = "searching"
    /\ failure' \in {"SoloditAuthError", "SoloditRateLimitError"}

\* C22: in every flow, when the corpus answers a search with an
\* authentication failure or a rate-limit failure, the flow ends in that step
\* by raising an error of that very kind to its caller; it does not go on to
\* an empty or partial result.
C22_AuthAndRateLimitPropagate ==
    [][AuthOrRateLimitHere =>
          /\ pc' = "raised"
          /\ response'.raised /\ response'.value = failure']_vars

\* The one call of the LLM the request made raised / returned an empty text.
GenerateFailed == generated # <<>> /\ generated[1].raised
GenerateEmpty == generated # <<>> /\ ~generated[1].raised /\ generated[1].value = <<>>

\* C23: when the LLM call fails, DictionaryModule.search returns the search
\* result it fetched with ai_summary None; /pitfall returns has_pitfall
\* true, the findings it ranked (the first 3) and the non-empty card built
\* locally from them; /fix-draft returns the references of its findings and
\* the non-empty draft built locally.  /pitfall and /fix-draft do the same
\* when the LLM returns an empty text.
C23_GenerateFailureDegrades ==
    /\ (flow = "dictionary" /\ GenerateFailed) =>
          /\ pc = "returned"
          /\ response = Ok([search_result |-> findings, ai_summary |-> None])
    /\ (flow = "pitfall" /\ (GenerateFailed \/ GenerateEmpty)) =>
          /\ pc = "returned" /\ ~response.raised
          /\ findings # <<>>
          /\ response.value.has_pitfall
          /\ response.value.findings = Take(findings, 3)
          /\ response.value.card_html # <<>>
          /\ response.value.card_html =
                _build_fallback_card(ctx, response.value.findings)
    /\ (flow = "fix_draft" /\ (GenerateFailed \/ GenerateEmpty)) =>
          /\ pc = "returned" /\ ~response.raised
          /\ response.value.references = References(findings)
          /\ response.value.draft_html # <<>>
          /\ response.value.draft_html = FallbackDraft(ctx, sel_name)

\* /pitfall ranked two findings, the LLM call raised, the card is there.
C23_Witness ==
    /\ flow = "pitfall" /\ pc = "returned" /\ GenerateFailed
    /\ Len(findings) >= 2
    /\ response.value.card_html # <<>>

\* C24: when generate_lesson or generate_report has fetched findings and
\* its LLM call then fails, it returns a result that carries those findings
\* (the lesson's sources, the report's matched_findings); it does not raise.
C24_GenerateFailureKeepsFindings ==
    (flow \in {"lesson", "scout"} /\ GenerateFailed) =>
        /\ pc = "returned" /\ ~response.raised
        /\ flow = "lesson" => response.value.sources = Sources(findings)
        /\ flow = "scout" => response.value.matched_findings = MatchedOf(findings)

\* The quiz blocks of a lesson's HTML that _parse_quiz turns into
\* questions: the matches of q_pattern that hold an option.
BlocksWithOptions(content) ==
    SelectSeq(QMatches(content, 1),
              LAMBDA m : OptionsFrom(SubSeq(content, m[1] + 1, m[2] - 1), 1) # <<>>)

\* C26: in every lesson generate_lesson returns, the quiz has one question
\* per quiz block of content_html, and the correct_index of each question
\* equals the data-correct value that the block carries in content_html.
C26_QuizAgreesWithHtml ==
    (pc = "returned" /\ flow = "lesson") =>
        LET lesson == response.value
            blocks == BlocksWithOptions(lesson.content_html)
        IN /\ Len(lesson.quiz) = Len(blocks)
           /\ \A k \in 1 .. Len(blocks) :
                 lesson.quiz[k].correct_index =
                    IntOf(lesson.content_html[blocks[k][1]]).value

\* The entries of more that own does not hold, each once, in their order.
MissingFrom(own, more) ==
    LET keep == {k \in 1 .. Len(more) :
                    /\ more[k] \notin Range(own)
                    /\ \A j \in 1 .. (k - 1) : more[j] # more[k]}
        F[k \in 0 .. Len(more)] ==
            IF k = 0 THEN <<>>
            ELSE IF k \in keep THEN Append(F[k - 1], more[k]) ELSE F[k - 1]
    IN F[Len(more)]

\* The context sel_ctx of the selection merged with full_ctx as claimed.
MergedAsClaimed(merged, sel_ctx, full_ctx) ==
    /\ merged.function_name =
          IF sel_ctx.function_name # "" THEN sel_ctx.function_name
          ELSE full_ctx.function_name
    /\ merged.protocol_type =
          IF flow = "pitfall" /\ sel_ctx.protocol_type = ""
          THEN full_ctx.protocol_type ELSE sel_ctx.protocol_type
    /\ merged.function_type = sel_ctx.function_type
    /\ merged.external_calls = sel_ctx.external_calls
    /\ merged.state_changes = sel_ctx.state_changes
    /\ merged.suggested_tags = sel_ctx.suggested_tags
    /\ merged.suggested_keywords = sel_ctx.suggested_keywords
    /\ merged.confidence = sel_ctx.confidence
    /\ merged.risk_patterns =
          sel_ctx.risk_patterns
          \o MissingFrom(sel_ctx.risk_patterns, full_ctx.risk_patterns)

C28_PitfallGeneratesOnlyWithFindings ==
    (flow = "pitfall") =>
        /\ generated # <<>> => scored # <<>>
        /\ pc = "returned" =>
              LET r == response.value
              IN /\ scored = <<>> =>
                       /\ generated = <<>>
                       /\ ~r.has_pitfall
                       /\ r.card_html = <<>> /\ r.findings = <<>>
                 /\ r.has_pitfall <=> r.findings # <<>>
                 /\ Len(r.findings) <= 3
                 /\ r.has_pitfall => r.card_html # <<>>

\* Queries were sent, none brought a finding, and /pitfall has answered.
C28_Witness ==
    /\ flow = "pitfall" /\ pc = "returned"
    /\ Len(sent) >= 2 /\ scored = <<>>
    /\ ~response.value.has_pitfall

(***************************************************************************)
(* SpecReport: the end of generate_report.  The request is taken at its    *)
(* last search: the file is parsed and analyzed, every query of the capped *)
(* list is sent, and all_findings holds what the earlier searches found,   *)
(* findings of different titles.  The last search returns or fails, the    *)
(* page is cut, the LLM is called and the report is built.                 *)
(***************************************************************************)
ReportFile == SubSeq(ScoutFile, 1, 2)

ReportTitles ==
    <<"T1", "T2", "T3", "T4", "T5", "T6", "T7", "T8", "T9", "T10", "T11",
      "T12", "T13", "T14", "T15", "T16", "T17", "T18", "T19", "T20", "T21">>

\* Impacts as the corpus spells them, and two it could spell otherwise.
ReportImpacts == <<"HIGH", "MEDIUM", "high", "LOW", "Critical">>

\* The first n findings the earlier searches found.
Discovered(n) ==
    [k \in 1 .. n |->
        [title |-> ReportTitles[k], slug |-> "", tags |-> <<>>,
         content |-> <<>>, impact |-> ReportImpacts[(k % 5) + 1]]]

\* How many they are: none, one, around the page sizes 5 and 20.
DiscoveredCounts == {0, 1, 4, 5, 6, 19, 20, 21}

Depths == {"quick", "standard", "deep", "thorough"}

InitReport ==
    /\ pc = "searching"
    /\ flow = "scout"
    /\ code = ReportFile /\ surrounding_code = <<>>
    /\ \E i \in _parse_contract(code), c \in analyze(code) :
          /\ info = i
          /\ ctx = ReadByScout(c)
          /\ unique_queries = UniqueLower(ScoutCandidates(i, c))
    /\ sent = ToSend(flow, unique_queries)
    /\ sent # <<>>
    /\ \E n \in DiscoveredCounts : findings = Discovered(n)
    /\ depth \in Depths
    /\ user_context = <<>> /\ sel_name = <<>> /\ scored = <<>>
    /\ failure = "" /\ generated = <<>> /\ response = <<>>
    /\ NormalizeIdle /\ HtmlIdle /\ ServerIdle

NextReport ==
    ScoutResult \/ SearchFails \/ ScoutCollect \/ Generated \/ GenerateFails

SpecReport == InitReport /\ [][NextReport]_vars

ClaimedPageSize ==
    CASE depth = "quick" -> 5 [] depth = "deep" -> 50 [] OTHER -> 20

MaxRequests == 2
Requests == 1 .. MaxRequests

\* server.py, lines 36-41: the handles before startup.
NoHandles ==
    [_solodit |-> None, _dictionary |-> None, _smart_search |-> None,
     _ai |-> None, _learning |-> None, _scout |-> None]

\* lifespan, lines 55-60: one client of each kind, shared by the modules.
StartedHandles ==
    LET solodit == Some("SoloditClient")
        ai == Some("AIProvider")
    IN [_solodit |-> solodit,
        _ai |-> ai,
        _smart_search |-> Some([_client |-> solodit]),
        _dictionary |-> Some([_client |-> solodit, _ai |-> ai]),
        _learning |-> Some([_client |-> solodit, _ai |-> ai]),
        _scout |-> Some([_client |-> solodit, _ai |-> ai])]

FindingTitled(t) == CHOOSE f \in Corpus \cup RankCorpus : f.title = t

\* What the findings API answers the searches of one request, in turn and
\* over again.
SearchScripts ==
    {<<Ok(<<>>)>>,
     <<Ok(<<FindingTitled("Flash loan drains vault")>>),
       Raised("SoloditRateLimitError"),
       Ok(<<FindingTitled("Stale timestamp"),
            FindingTitled("Flash loan drains vault")>>)>>,
     <<Ok(<<FindingTitled("foo can be front-run"),
            FindingTitled("Stale timestamp")>>),
       Ok(<<FindingTitled("Unchecked return value")>>)>>}

ReplyScripts == [searches : SearchScripts, ai : {Ok(<<"txt">>), Raise}]

\* The answer to the k-th search of a request.
SearchReply(script, k) ==
    script.searches[((k - 1) % Len(script.searches)) + 1]

\* The locals of a handler that has just been called.
NewFrame(handler, text) ==
    [flow |-> handler, code |-> text, depth |-> "quick", pc |-> "input",
     info |-> <<>>, ctx |-> <<>>, sel_name |-> <<>>, unique_queries |-> <<>>,
     sent |-> <<>>, scored |-> <<>>, findings |-> <<>>, response |-> <<>>]

\* Variant: the lists of findings are attributes of the shared modules, so
\* a coroutine that writes its own writes those of every request.
Store_on_module(r, f) ==
    [q \in Requests |->
        IF q = r THEN f
        ELSE [requests[q] EXCEPT !.scored = f.scored, !.findings = f.findings]]

\* A coroutine writes its locals: those of its own frame.
Store(r, f) == [requests EXCEPT ![r] = f]

InitServer ==
    /\ pc = "startup"
    /\ handles = NoHandles
    /\ replies \in [Requests -> ReplyScripts]
    /\ requests \in [Requests -> {NewFrame("pitfall", RankSelection),
                                  NewFrame("scout", ReportFile)}]
    /\ NormalizeIdle /\ HtmlIdle /\ CodeIdle
    /\ flow = "" /\ user_context = <<>> /\ surrounding_code = <<>>
    /\ sel_name = <<>> /\ unique_queries = <<>> /\ sent = <<>>
    /\ scored = <<>> /\ findings = <<>>
    /\ ReplyIdle

\* lifespan, lines 44-63: the server serves no request before.
Lifespan ==
    /\ pc = "startup"
    /\ handles' = StartedHandles
    /\ pc' = "serving"
    /\ UNCHANGED <<normalizeVars, htmlVars, codeVars, flow, user_context,
                   surrounding_code, sel_name, unique_queries, sent, scored,
                   findings, replyVars, replies, requests>>

\* What a step of a handler leaves alone.
ServerFrame ==
    /\ pc = "serving"
    /\ UNCHANGED <<pc, normalizeVars, htmlVars, codeVars, flow, user_context,
                   surrounding_code, sel_name, unique_queries, sent, scored,
                   findings, replyVars, handles, replies>>

\* pitfall, lines 263-317; generate_report, lines 120-149: from the call to
\* the list of queries.
HandlerStart(r) ==
    LET f == requests[r]
    IN /\ f.pc = "input"
       /\ IF f.flow = "pitfall"
          THEN /\ handles._smart_search # None /\ handles._ai # None
               /\ \E sel_ctx \in analyze(f.code) :
                     LET c == PitfallContext(sel_ctx, sel_ctx)
                         name == SelName(f.code)
                     IN requests' = Store(r,
                           [f EXCEPT
                               !.ctx = c, !.sel_name = name,
                               !.unique_queries =
                                   PitfallUnique(PitfallCandidates(
                                       c, name, RawSelection(f.code))),
                               !.pc = "loop"])
          ELSE /\ handles._scout # None
               /\ \E i \in _parse_contract(f.code), c \in analyze(f.code) :
                     requests' = Store(r,
                        [f EXCEPT
                            !.info = i, !.ctx = ReadByScout(c),
                            !.unique_queries = UniqueLower(ScoutCandidates(i, c)),
                            !.pc = "loop"])
       /\ ServerFrame

\* pitfall, lines 325-332; generate_report, lines 155-162: the next search
\* is awaited.
HandlerSend(r) ==
    LET f == requests[r]
        queries == ToSend(f.flow, f.unique_queries)
    IN /\ f.pc = "loop"
       /\ Len(f.sent) < Len(queries)
       /\ requests' = Store(r, [f EXCEPT !.sent = Append(@, queries[Len(@) + 1]),
                                         !.pc = "searching"])
       /\ ServerFrame

\* pitfall, lines 336-344; generate_report, lines 163-166.
SearchReturns(r) ==
    LET f == requests[r]
        o == SearchReply(replies[r], Len(f.sent))
    IN /\ f.pc = "searching"
       /\ ~o.raised
       /\ requests' = Store(r,
             IF f.flow = "pitfall"
             THEN [f EXCEPT !.scored = AddScored(@, o.value, f.sel_name, f.ctx),
                            !.pc = "loop"]
             ELSE [f EXCEPT !.findings = AddByTitle(@, o.value),
                            !.pc = "loop"])
       /\ ServerFrame

\* pitfall, lines 333-335; generate_report, lines 167-168.
SearchFailsFor(r) ==
    LET f == requests[r]
    IN /\ f.pc = "searching"
       /\ SearchReply(replies[r], Len(f.sent)).raised
       /\ requests' = Store(r, [f EXCEPT !.pc = "loop"])
       /\ ServerFrame

\* pitfall, lines 346-355; generate_report, line 170: the loop is over.
LoopEnds(r) ==
    LET f == requests[r]
        fs == IF f.flow = "pitfall" THEN Selected("pitfall", f.scored)
              ELSE Take(f.findings, PageSize(f.depth))
    IN /\ f.pc = "loop"
       /\ Len(f.sent) = Len(ToSend(f.flow, f.unique_queries))
       /\ requests' = Store(r,
             IF f.flow = "pitfall" /\ fs = <<>>
             THEN [f EXCEPT !.findings = fs, !.pc = "returned",
                            !.response = Ok([has_pitfall |-> FALSE,
                                             analysis |-> f.ctx,
                                             card_html |-> <<>>,
                                             findings |-> <<>>])]
             ELSE [f EXCEPT !.findings = fs, !.pc = "generating"])
       /\ ServerFrame

\* pitfall, lines 389-410; generate_report, lines 214-236: what the handler
\* makes of the outcome of the LLM call.
HandlerResponse(f, outcome) ==
    IF f.flow = "pitfall"
    THEN Ok(PitfallResponse(f.ctx, f.findings,
                            IF outcome.raised THEN <<>> ELSE outcome.value))
    ELSE IF outcome.raised THEN Raised("AIError")
    ELSE Ok(ScoutReport(f.info, f.findings, PageSize(f.depth), outcome.value))

LlmAnswers(r) ==
    LET f == requests[r]
        res == HandlerResponse(f, replies[r].ai)
    IN /\ f.pc = "generating"
       /\ requests' = Store(r, [f EXCEPT !.response = res,
                                         !.pc = IF res.raised THEN "raised"
                                                ELSE "returned"])
       /\ ServerFrame

NextServer ==
    \/ Lifespan
    \/ \E r \in Requests : HandlerStart(r)
    \/ \E r \in Requests : HandlerSend(r)
    \/ \E r \in Requests : SearchReturns(r)
    \/ \E r \in Requests : SearchFailsFor(r)
    \/ \E r \in Requests : LoopEnds(r)
    \/ \E r \in Requests : LlmAnswers(r)

SpecServer == InitServer /\ [][NextServer]_vars

RECURSIVE FoundAlone(_, _, _)
\* What a handler that runs alone has kept after its first k searches.
FoundAlone(f, script, k) ==
    IF k = 0 THEN <<>>
    ELSE LET before == FoundAlone(f, script, k - 1)
             o == SearchReply(script, k)
         IN IF o.raised THEN before
            ELSE IF f.flow = "pitfall"
            THEN AddScored(before, o.value, f.sel_name, f.ctx)
            ELSE AddByTitle(before, o.value)

\* The response of a handler that runs alone on the request of frame f and
\* gets the replies of the script.
Alone(f, script) ==
    LET all == FoundAlone(f, script, Len(ToSend(f.flow, f.unique_queries)))
        fs == IF f.flow = "pitfall" THEN Selected("pitfall", all)
              ELSE Take(all, PageSize(f.depth))
    IN IF f.flow = "pitfall" /\ fs = <<>>
       THEN Ok([has_pitfall |-> FALSE, analysis |-> f.ctx,
                card_html |-> <<>>, findings |-> <<>>])
       ELSE HandlerResponse([f EXCEPT !.findings = fs], script.ai)

Finished(r) == requests[r].pc \in {"returned", "raised"}

\* C25: however the steps of the requests handled at once interleave at
\* their searches and LLM calls, the response of each request is the one its
\* handler gives when it runs alone and gets the same replies; and once
\* lifespan has set the handles, no step of a request changes them.
C25_RequestsDoNotInterfere ==
    /\ pc = "serving" => handles = StartedHandles
    /\ \A r \in Requests :
          Finished(r) => requests[r].response = Alone(requests[r], replies[r])

\* Two requests that got different replies were searching at the same time,
\* and the first has returned findings while the second is still at work.
C25_Witness ==
    /\ pc = "serving"
    /\ replies[1] # replies[2]
    /\ requests[1].pc = "returned" /\ requests[1].findings # <<>>
    /\ requests[2].pc \in {"searching", "generating"}
    /\ requests[2].sent # <<>>
    /\ requests[1].flow = requests[2].flow

(***************************************************************************)
(* Claims about the answer-letter hint (SpecNormalize).                    *)
(***************************************************************************)
\* An answer letter standing alone, not the first letter of a longer word.
StandAloneLetters == {"A", "B", "C", "D", "a", "b", "c", "d"}

\* The text carries an explicit hint: keyword, ':' or '-', one letter A-D.
HasStandAloneHint(text) ==
    \E i \in 1 .. Len(text) : \E k \in (i + 2) .. Len(text) :
        IsHint(text, i, k) /\ text[k] \in StandAloneLetters

\* What the raw index alone gives: one-based, else zero-based, else clamped.
FromRawIndex ==
    IF 1 <= raw_correct /\ raw_correct <= options_count THEN raw_correct - 1
    ELSE IF 0 <= raw_correct /\ raw_correct < options_count THEN raw_correct
    ELSE Max(0, Min(raw_correct, options_count - 1))

\* C30: a letter hint is taken only from a stand-alone answer letter: when
\* the block and the explanation carry no keyword followed by ':' or '-'
\* and a single letter A-D, as in "Correct: because ...", the result is
\* the one the raw index gives.
C30_HintOnlyFromStandAloneLetter ==
    (pc = "done" /\ options_count > 0 /\ ~HasStandAloneHint(HintText))
        => correct_idx = FromRawIndex

====
